---- MODULE Spec2Model ----
(***************************************************************************)
(* Session / history layer of the personal-finance chat assistant          *)
(* (src/final.py): the conversations table, the FinanceAgent sessions      *)
(* (conversation_id, new_conversation, load_conversation, step,            *)
(* get_history, save_message) and DatabaseManager.get_conversation_list.   *)
(*                                                                         *)
(* Text is modelled as a sequence of tokens; an f-string is the            *)
(* concatenation of its literal pieces and its substituted values.  The    *)
(* Chinese literals of the source are written as ASCII tokens, each with   *)
(* the original text in its comment.                                       *)
(***************************************************************************)
EXTENDS Naturals, Integers, Sequences, FiniteSets, TLC

VARIABLES
    users,            \* ids of the rows of table users
    conversations,    \* table conversations: sequence of rows, rowid = index
    conversation_id,  \* FinanceAgent.conversation_id of every session
    minted,           \* identifiers minted so far, in order (kept by SpecIds)
    superseded,       \* per session, the notes of the conversations its
                      \* new_conversation calls have left (kept by SpecSwitch)
    transactions,     \* table transactions: sequence of rows, rowid = index
    budgets,          \* table budgets: set of rows, each with its id
    saving_tips,      \* table saving_tips: sequence of rows, rowid = index
    schema,           \* table conversations as _initialize_db finds it: absent,
                      \* without the conversation_id column, or with it
    chat_history,     \* the transcript every chat tab shows (its Chatbot value)
    sending,          \* per session, the send handler in flight (kept by
                      \* SpecInterleave)
    last              \* the operation performed last, its inputs and outcome

vars == <<users, conversations, conversation_id, minted, superseded,
          transactions, budgets, saving_tips, schema, chat_history, sending, last>>

\* what only the start of a process writes
startup == <<saving_tips, schema>>

\* the state of the chat surface
surface == <<chat_history, sending>>

\* what the operations of the sessions leave alone
finance == <<transactions, budgets>>

\* what the finance operations leave alone
sessions == <<conversations, conversation_id, minted, superseded>>

-----------------------------------------------------------------------------
(* Bounds of the model *)

\* rows the conversations table may hold
MaxRows == 2
\* datetime.now().isoformat() readings are drawn from 0..MaxClock
MaxClock == 1
\* datetime.now().strftime('%Y%m%d%H%M%S') readings are drawn from 0..MaxSecond
MaxSecond == 1
\* os.urandom(4).hex() values are drawn from 0..MaxRand
MaxRand == 1
\* identifiers minted in a run of SpecIds
MaxMints == 4

\* clock readings per minute (the labels of the conversation list show minutes)
TicksPerMinute == 2

\* tool results one response of the model carries
MaxToolResults == 2

\* LIMIT 20 of get_history
HistoryLimit == 20

-----------------------------------------------------------------------------
(* Values *)

\* agent_type tags: "小账", "明查", "省省", "远谋"
AgentTypes == {"xiaozhang", "mingcha", "shengsheng", "yuanmou"}

Users == {1, 2}

\* The FinanceAgent sessions of the model, as <<user_id, agent_type>>: two of
\* the four agents the interface builds, all for user_id = 1.
Sessions == {<<1, "xiaozhang">>, <<1, "mingcha">>}

\* Readings of the wall clock.  datetime.now() is the local wall clock: two
\* readings may be equal and a later reading may be smaller than an earlier
\* one (clock correction, end of daylight saving time), so every reading is
\* an input.  ISO timestamps of equal form compare as text the way their
\* instants compare, so a timestamp is modelled by its instant.
Times == 0 .. MaxClock
Seconds == 0 .. MaxSecond
Rands == 0 .. MaxRand
\* two values of the random part, for the sessions of Spec
SessionRands == {0, 1}
\* the clock reading of the runs of Spec, whose properties do not read the
\* timestamps (SpecOrder draws them from Times)
SessionTimes == {0}

MessageTypes == {"user", "assistant"}

\* outcome of the storage layer during one call: fine, sqlite3.connect fails
\* (get_connection re-raises), or the statement fails (sqlite3.Error in execute)
DbOutcomes == {"ok", "connect_error", "query_error"}

None == <<>>

\* a row of saving_tips: (category, tip, difficulty, estimated_saving); the
\* tip text is named by its category
Tip(category, difficulty, estimated_saving) ==
    [category |-> category, tip |-> category, difficulty |-> difficulty,
     estimated_saving |-> estimated_saving]

\* default_tips of _initialize_db: "餐饮", "交通", "购物", "娱乐", "通讯" with
\* the difficulties "简单" and "中等"
default_tips ==
    << Tip("dining", "easy", 120), Tip("transport", "easy", 80),
       Tip("shopping", "medium", 200), Tip("entertainment", "easy", 150),
       Tip("communication", "easy", 50) >>

\* no send handler of the tab is running
Idle == [pc |-> "idle"]

-----------------------------------------------------------------------------
(* Conversation identifiers *)

\* an identifier without its random part (what C4 must tell apart)
_generate_conversation_id_without_random(s, sec, r) == <<s[1], s[2], sec, 0>>

\* f"{user_id}_{agent_type}_{now:%Y%m%d%H%M%S}_{os.urandom(4).hex()}": the four
\* fields in order (the separators are fixed, the last two fields have fixed
\* width and no field holds the separator).
_generate_conversation_id(s, sec, r) == <<s[1], s[2], sec, r>>

\* the identifiers load_conversation is handed: those the sessions mint and
\* one of another user
ConversationIds ==
    {_generate_conversation_id(s, 0, r) : s \in Sessions, r \in SessionRands}
    \cup {<<2, "xiaozhang", 0, 0>>}

-----------------------------------------------------------------------------
(* Table conversations *)

\* a row that is always tagged as the user's (what C12 must tell apart)
Row_as_user(s, msg_type, content, t, cid) ==
    [user_id |-> s[1], agent_type |-> s[2], message_type |-> "user",
     content |-> content, timestamp |-> t, conversation_id |-> cid]

\* the row save_message inserts: (user_id, agent_type, message_type, content,
\* timestamp, conversation_id)
Row(s, msg_type, content, t, cid) ==
    [user_id |-> s[1], agent_type |-> s[2], message_type |-> msg_type,
     content |-> content, timestamp |-> t, conversation_id |-> cid]

\* rowids of the rows matching WHERE user_id = ? AND agent_type = ? AND conversation_id = ?
MatchingRows(rows, u, a, cid) ==
    {i \in 1 .. Len(rows) :
        /\ rows[i].user_id = u
        /\ rows[i].agent_type = a
        /\ rows[i].conversation_id = cid}

\* rowids of the rows matching WHERE user_id = ? AND agent_type = ?
PairRows(rows, u, a) ==
    {i \in 1 .. Len(rows) : rows[i].user_id = u /\ rows[i].agent_type = a}

\* all enumerations of a finite set
Enumerations(S) ==
    {p \in [1 .. Cardinality(S) -> S] : \A i, j \in 1 .. Cardinality(S) : p[i] = p[j] => i = j}

\* ORDER BY key DESC, key a function on S: every enumeration with
\* non-increasing keys (SQL leaves the order of rows with equal keys open)
OrderByDesc(S, key) ==
    {p \in Enumerations(S) : \A i, j \in 1 .. Cardinality(S) : i < j => key[p[i]] >= key[p[j]]}

\* ORDER BY key ASC
OrderByAsc(S, key) ==
    {p \in Enumerations(S) : \A i, j \in 1 .. Cardinality(S) : i < j => key[p[i]] <= key[p[j]]}

Limit(p, n) == IF Len(p) <= n THEN p ELSE SubSeq(p, 1, n)

Reversed(p) == [i \in 1 .. Len(p) |-> p[Len(p) + 1 - i]]

Max(S) == CHOOSE x \in S : \A y \in S : y <= x

-----------------------------------------------------------------------------
(* Reads of the store *)

\* The rows get_history fetches: ORDER BY timestamp DESC LIMIT 20, then
\* reversed(rows).  One result per order the query may deliver.
HistoryRows(rows, s, cid) ==
    {Reversed(Limit(p, HistoryLimit)) :
        p \in OrderByDesc(MatchingRows(rows, s[1], s[2], cid),
                          [i \in MatchingRows(rows, s[1], s[2], cid) |-> rows[i].timestamp])}

\* f"{row[0]}: {row[1]}" for each row; "\n".join is the sequence of the lines
HistoryLines(rows, q) ==
    [k \in 1 .. Len(q) |-> <<rows[q[k]].message_type, ": ", rows[q[k]].content>>]

\* FinanceAgent.get_history with a connection at hand: the text it may return
\* (a failing query is caught and gives the empty text)
get_history(rows, s, cid, db) ==
    IF db = "query_error"
    THEN {<<>>}
    ELSE {HistoryLines(rows, q) : q \in HistoryRows(rows, s, cid)}

\* SELECT DISTINCT conversation_id, MAX(timestamp) ... GROUP BY conversation_id
ConversationGroups(rows, u, a) == {rows[i].conversation_id : i \in PairRows(rows, u, a)}

LastUpdate(rows, u, a, cid) == Max({rows[i].timestamp : i \in MatchingRows(rows, u, a, cid)})

\* display label f"对话 {dt:%Y-%m-%d %H:%M}" of a group
DisplayName(t) == <<"conversation ", t \div TicksPerMinute>>

\* the list in ascending order of the last update (what C3 must tell apart)
get_conversation_list_ascending(rows, u, a, db) ==
    IF db = "query_error"
    THEN {<<>>}
    ELSE {[k \in 1 .. Len(p) |-> <<DisplayName(LastUpdate(rows, u, a, p[k])), p[k]>>] :
            p \in OrderByAsc(ConversationGroups(rows, u, a),
                             [cid \in ConversationGroups(rows, u, a) |->
                                 LastUpdate(rows, u, a, cid)])}

\* DatabaseManager.get_conversation_list: the lists of (label, conversation_id)
\* it may return; a failing query is caught and gives the empty list
get_conversation_list(rows, u, a, db) ==
    IF db = "query_error"
    THEN {<<>>}
    ELSE {[k \in 1 .. Len(p) |-> <<DisplayName(LastUpdate(rows, u, a, p[k])), p[k]>>] :
            p \in OrderByDesc(ConversationGroups(rows, u, a),
                              [cid \in ConversationGroups(rows, u, a) |->
                                  LastUpdate(rows, u, a, cid)])}

\* SELECT COUNT(*) ... > 0 of load_conversation
HasTurn(rows, s, cid) == MatchingRows(rows, s[1], s[2], cid) # {}

\* a lookup by the identifier alone, whoever owns its turns (what C5 must
\* tell apart)
LoadResult_any_owner(rows, s, cid, db) ==
    db = "ok" /\ \E i \in 1 .. Len(rows) : rows[i].conversation_id = cid

\* a lookup that also accepts the identifier the session holds, with or
\* without a turn (what C24 must tell apart)
LoadResult_or_current(rows, s, cid, db) ==
    db = "ok" /\ (HasTurn(rows, s, cid) \/ cid = conversation_id[s])

\* value returned by load_conversation with a connection at hand
LoadResult(rows, s, cid, db) == db = "ok" /\ HasTurn(rows, s, cid)

-----------------------------------------------------------------------------
(* The language model's response and the reply built from it *)

\* texts of the model
Narratives == {<<"narrative">>}
UserMessages == {<<"hello">>}

\* A tool result as json.loads sees it: text that is a JSON object (the
\* envelope of a finance operation), text that is no JSON, text that is JSON
\* but no object, or a value that is no text.
Envelope(status, has_message, message, has_warning, warning) ==
    [shape |-> "object", raw |-> "", status |-> status,
     has_message |-> has_message, message |-> message,
     has_warning |-> has_warning, warning |-> warning]

Unparsed(shape, raw) ==
    [shape |-> shape, raw |-> raw, status |-> "", has_message |-> FALSE,
     message |-> "", has_warning |-> FALSE, warning |-> ""]

ToolResults ==
    { Envelope("success", TRUE, "recorded", FALSE, ""),        \* success, message
      Envelope("success", TRUE, "recorded", TRUE, "overspent"),\* add_transaction with a warning
      Envelope("success", TRUE, "recorded", TRUE, ""),         \* add_transaction, "warning": null
      Envelope("success", FALSE, "", FALSE, ""),               \* {"status": "success", "tips": []}
      Envelope("error", TRUE, "record_failed", FALSE, ""),     \* error envelope
      Envelope("error", FALSE, "", FALSE, ""),                 \* error envelope without message
      Envelope("warning", TRUE, "needs_more_months", FALSE, ""), \* create_financial_plan
      Unparsed("invalid_json", "plain text"),
      Unparsed("non_object", "[1]"),
      Unparsed("non_text", "dict") }

\* The response of ChatAgent.step (super().step): it raises exc, or returns an
\* object whose info may lack "tool_calls" or "tool_results", whose msgs may
\* be empty, and which may or may not have a content attribute.
Response(exc, has_tool_calls, tool_calls, has_tool_results, tool_results, msgs, has_content) ==
    [exc |-> exc, has_tool_calls |-> has_tool_calls, tool_calls |-> tool_calls,
     has_tool_results |-> has_tool_results, tool_results |-> tool_results,
     msgs |-> msgs, has_content |-> has_content, content |-> <<"own content">>]

\* a message of the assistant (BaseMessage): role_name, role_type, content
Message(role_name, content) ==
    [role_name |-> role_name, role_type |-> "ASSISTANT", content |-> content]

ModelMessages == {<<>>} \cup {<<Message("assistant", n)>> : n \in Narratives}

ToolResultLists(n) == UNION {[1 .. k -> ToolResults] : k \in 0 .. n}

\* original_content of _process_tool_results on the regular path:
\* response.msgs[0].content if response has msgs, else response.content
\* (an AttributeError when there is no such attribute)
OriginalContent(resp) ==
    IF resp.msgs # <<>> THEN [ok |-> TRUE, text |-> resp.msgs[1].content, err |-> ""]
    ELSE IF resp.has_content THEN [ok |-> TRUE, text |-> resp.content, err |-> ""]
    ELSE [ok |-> FALSE, text |-> <<>>, err |-> "AttributeError: content"]

\* original_content of the except branch of _process_tool_results; '无回复内容'
\* when the response has neither msgs nor content
OriginalContentOrDefault(resp) ==
    IF resp.msgs # <<>> THEN resp.msgs[1].content
    ELSE IF resp.has_content THEN resp.content
    ELSE <<"no_reply_content">>

\* The lines one tool result adds to result_str, or the exception it raises:
\*   "操作成功: {message}\n"  op_succeeded      "提醒: {warning}\n"  reminder
\*   "操作失败: {message}\n"  op_failed ('未知错误' unknown_error without message)
\*   "工具返回: {result}\n"   tool_returned, for text json.loads cannot decode
ResultLines(result) ==
    IF result.shape = "non_text"
    THEN [ok |-> FALSE, text |-> <<>>, err |-> "TypeError: json.loads"]
    ELSE IF result.shape = "invalid_json"
    THEN [ok |-> TRUE, text |-> <<"tool_returned: ", result.raw, "\n">>, err |-> ""]
    ELSE IF result.shape = "non_object"
    THEN [ok |-> FALSE, text |-> <<>>, err |-> "AttributeError: get"]
    ELSE IF result.status = "success"
    THEN [ok |-> TRUE,
          text |-> (IF result.has_message
                    THEN <<"op_succeeded: ", result.message, "\n">> ELSE <<>>)
                   \o (IF result.has_warning /\ result.warning # ""
                       THEN <<"reminder: ", result.warning, "\n">> ELSE <<>>),
          err |-> ""]
    ELSE [ok |-> TRUE,
          text |-> <<"op_failed: ",
                     IF result.has_message THEN result.message ELSE "unknown_error",
                     "\n">>,
          err |-> ""]

\* the loop over tool_results: result_str, or the first exception raised
RECURSIVE ResultStr(_)
ResultStr(tool_results) ==
    IF tool_results = <<>> THEN [ok |-> TRUE, text |-> <<>>, err |-> ""]
    ELSE LET head == ResultLines(Head(tool_results))
             rest == ResultStr(Tail(tool_results))
         IN  IF ~head.ok THEN head
             ELSE IF ~rest.ok THEN rest
             ELSE [ok |-> TRUE, text |-> head.text \o rest.text, err |-> ""]

\* f"处理工具结果时出错: {str(e)}\n原始回复: {original_content}"
ToolErrorReply(resp, err) ==
    <<"tool_error: ", err, "\n", "original_reply: ">> \o OriginalContentOrDefault(resp)

\* FinanceAgent._process_tool_results: the text of the final reply
_process_tool_results(resp) ==
    IF ~resp.has_tool_results
    THEN ToolErrorReply(resp, "KeyError: tool_results")
    ELSE IF resp.tool_results = <<>>
    THEN IF OriginalContent(resp).ok
         THEN OriginalContent(resp).text
         ELSE ToolErrorReply(resp, OriginalContent(resp).err)
    ELSE IF ~ResultStr(resp.tool_results).ok
    THEN ToolErrorReply(resp, ResultStr(resp.tool_results).err)
    ELSE IF ~OriginalContent(resp).ok
    THEN ToolErrorReply(resp, OriginalContent(resp).err)
    ELSE OriginalContent(resp).text \o <<"\n\n">> \o ResultStr(resp.tool_results).text

\* a fallback message that does not carry the error (what C7 must tell apart)
ErrorMessage_without_error(err) == Message("system", <<"request_error: ", ". please_rephrase">>)

\* f"处理请求时出错: {str(e)}。请尝试重新表述您的问题。" as the message of role "系统"
ErrorMessage(err) == Message("system", <<"request_error: ", err, ". please_rephrase">>)

\* full_content of step: the history preamble and the new message, or the new
\* message alone when the history text is empty
FullContent(history, content) ==
    IF history # <<>>
    THEN <<"history:\n", history, "\nuser_now_says: ", content>>
    ELSE content

\* a step that sends every response through _process_tool_results, which ends
\* the narrative with the separator of the result lines (what C11 must tell
\* apart)
StepReturn_always_processed(resp) ==
    IF resp.exc # ""
    THEN [kind |-> "message", message |-> ErrorMessage(resp.exc), response |-> None]
    ELSE IF ~resp.has_tool_calls
    THEN [kind |-> "message", message |-> ErrorMessage("KeyError: tool_calls"), response |-> None]
    ELSE IF resp.msgs = <<>>
    THEN [kind |-> "message", message |-> ErrorMessage("IndexError"), response |-> None]
    ELSE [kind |-> "message",
          message |-> Message(resp.msgs[1].role_name, resp.msgs[1].content \o <<"\n\n">>),
          response |-> None]

\* What FinanceAgent.step returns once the history is read: the response
\* itself, or a message built from it, or the message of the except branch.
StepReturn(resp) ==
    IF resp.exc # ""
    THEN [kind |-> "message", message |-> ErrorMessage(resp.exc), response |-> None]
    ELSE IF ~resp.has_tool_calls
    THEN [kind |-> "message", message |-> ErrorMessage("KeyError: tool_calls"), response |-> None]
    ELSE IF ~resp.tool_calls
    THEN [kind |-> "response", message |-> None, response |-> resp]
    ELSE IF resp.msgs = <<>>
    THEN [kind |-> "message", message |-> ErrorMessage("IndexError"), response |-> None]
    ELSE [kind |-> "message",
          message |-> Message(resp.msgs[1].role_name, _process_tool_results(resp)),
          response |-> None]

-----------------------------------------------------------------------------
(* Operations of FinanceAgent and DatabaseManager *)

\* the record of the operation performed last: the session, the identifier
\* handed in or minted, how the storage layer behaved, whether the call
\* returned or raised, the value it returned, and for step the history it read
\* and the response of the model
Did(op, s, cid, db, outcome, result, history, resp) ==
    [op |-> op, s |-> s, cid |-> cid, db |-> db, outcome |-> outcome, result |-> result,
     history |-> history, resp |-> resp]

Outcome(db) == IF db = "connect_error" THEN "raised" ELSE "returned"

\* the responses the language model gives in the runs of Spec: it raises, it
\* answers in plain text, it answers after one tool call
ChatResponses ==
    { Response("model error", TRUE, FALSE, TRUE, <<>>, <<>>, FALSE),
      Response("", TRUE, FALSE, TRUE, <<>>, <<Message("assistant", <<"narrative">>)>>, FALSE),
      Response("", TRUE, TRUE, TRUE, <<Envelope("success", TRUE, "recorded", FALSE, "")>>,
               <<Message("assistant", <<"narrative">>)>>, FALSE) }

\* every response of the model: SpecStep draws from these
Responses ==
    {Response("model error", TRUE, FALSE, TRUE, <<>>, <<>>, FALSE)}
    \cup {Response("", FALSE, FALSE, FALSE, <<>>, m, FALSE) : m \in ModelMessages}
    \cup {Response("", TRUE, FALSE, TRUE, <<>>, m, c) : m \in ModelMessages, c \in BOOLEAN}
    \cup {Response("", TRUE, TRUE, FALSE, <<>>, m, c) : m \in ModelMessages, c \in BOOLEAN}
    \cup {Response("", TRUE, TRUE, TRUE, r, m, c) :
            r \in ToolResultLists(MaxToolResults), m \in ModelMessages, c \in BOOLEAN}

\* DatabaseManager.ensure_user_exists: INSERT OR IGNORE INTO users; a failing
\* statement is caught and leaves the table as it was
ensure_user_exists(usrs, u, db) == IF db = "ok" THEN usrs \cup {u} ELSE usrs

\* a new_conversation that deletes the turns of the conversation it leaves
\* (what C15 must tell apart)
NewConversationStep_deleting(s, sec, r) ==
    LET Kept(row) == ~(/\ row.user_id = s[1]
                       /\ row.agent_type = s[2]
                       /\ row.conversation_id = conversation_id[s])
    IN  /\ conversation_id' = [conversation_id EXCEPT ![s] = _generate_conversation_id(s, sec, r)]
        /\ conversations' = SelectSeq(conversations, Kept)
        /\ last' = Did("new_conversation", s, conversation_id'[s], None, "returned", None, None, None)
        /\ UNCHANGED <<users, startup, surface, finance>>

\* FinanceAgent.new_conversation: a fresh identifier replaces the current one
NewConversationStep(s, sec, r) ==
    /\ conversation_id' = [conversation_id EXCEPT ![s] = _generate_conversation_id(s, sec, r)]
    /\ last' = Did("new_conversation", s, conversation_id'[s], None, "returned", None, None, None)
    /\ UNCHANGED <<users, startup, surface, conversations, finance>>

\* In the runs of Spec every identifier is minted within one clock second, so
\* that only the random part tells the identifiers of a session apart.
new_conversation(s) ==
    \E r \in SessionRands :
        /\ NewConversationStep(s, 0, r)
        /\ UNCHANGED <<minted, superseded>>

\* FinanceAgent.load_conversation: get_connection is called before the try
\* block, so a failing connection is raised to the caller; inside the try
\* block a failing query returns False
LoadConversationStep(s, cid, db) ==
    /\ conversation_id' =
          IF db # "connect_error" /\ LoadResult(conversations, s, cid, db)
          THEN [conversation_id EXCEPT ![s] = cid]
          ELSE conversation_id
    /\ last' = Did("load_conversation", s, cid, db, Outcome(db),
                   IF db = "connect_error" THEN None
                   ELSE LoadResult(conversations, s, cid, db),
                   None, None)
    /\ UNCHANGED <<users, startup, surface, conversations, minted, finance>>

load_conversation(s, cid, db) ==
    /\ LoadConversationStep(s, cid, db)
    /\ UNCHANGED superseded

\* an INSERT OR REPLACE over the newest row (what C6 must tell apart)
Inserted_over_newest(rows, usrs, s, msg_type, content, t, cid, db) ==
    IF db = "ok" /\ s[1] \in usrs
    THEN IF rows = <<>>
         THEN <<Row(s, msg_type, content, t, cid)>>
         ELSE [rows EXCEPT ![Len(rows)] = Row(s, msg_type, content, t, cid)]
    ELSE rows

\* the INSERT of save_message: the row is added unless the statement fails or
\* the foreign key users(id) is violated
Inserted(rows, usrs, s, msg_type, content, t, cid, db) ==
    IF db = "ok" /\ s[1] \in usrs
    THEN Append(rows, Row(s, msg_type, content, t, cid))
    ELSE rows

\* the record of a call of save_message: its arguments, the clock reading,
\* the identifier current at the call and how the storage layer behaved
DidSave(s, msg_type, content, t, cid, db) ==
    [op |-> "save_message", s |-> s, cid |-> cid, db |-> db, outcome |-> Outcome(db),
     result |-> None, history |-> None, resp |-> None,
     msg_type |-> msg_type, content |-> content, timestamp |-> t]

\* FinanceAgent.save_message: get_connection before the try block (a failing
\* connection is raised to the caller); a failing INSERT is printed and rolled
\* back, and the call returns as after a successful one
save_message(s, msg_type, content, t, db) ==
    /\ Len(conversations) < MaxRows
    /\ conversations' = Inserted(conversations, users, s, msg_type, content, t,
                                 conversation_id[s], db)
    /\ last' = DidSave(s, msg_type, content, t, conversation_id[s], db)
    /\ UNCHANGED <<users, startup, surface, conversation_id, minted, superseded, finance>>

\* a step that persists the user's message itself (what C8 must tell apart)
StepWith_persisting(s, user_msg, resp, db) ==
    /\ conversations' =
          IF Len(conversations) < MaxRows
          THEN Append(conversations, Row(s, "user", user_msg, 0, conversation_id[s]))
          ELSE conversations
    /\ last' = Did("step", s, conversation_id[s], db, Outcome(db),
                   IF db = "connect_error" THEN None ELSE StepReturn(resp), None, resp)
    /\ UNCHANGED <<users, startup, surface, conversation_id, minted, superseded, finance>>

\* FinanceAgent.step: get_history before the try block (a failing connection
\* is raised to the caller), then the model call and what is made of it
StepWith(s, user_msg, resp, db) ==
    /\ \/ /\ db = "connect_error"
          /\ last' = Did("step", s, conversation_id[s], db, "raised", None, None, None)
       \/ /\ db # "connect_error"
          /\ \E history \in get_history(conversations, s, conversation_id[s], db) :
                last' = Did("step", s, conversation_id[s], db, "returned", StepReturn(resp),
                            [text |-> history, full_content |-> FullContent(history, user_msg)],
                            resp)
    /\ UNCHANGED <<users, startup, surface, conversations, conversation_id, minted, superseded, finance>>

step(s) ==
    \E user_msg \in UserMessages, resp \in ChatResponses, db \in DbOutcomes :
        StepWith(s, user_msg, resp, db)

\* FinanceInterface._refresh_*_conversations: get_conversation_list
\* (get_connection is called before its try block)
_refresh_conversations(s, db) ==
    /\ \/ /\ db = "connect_error"
          /\ last' = Did("get_conversation_list", s, None, db, "raised", None, None, None)
       \/ /\ db # "connect_error"
          /\ \E result \in get_conversation_list(conversations, s[1], s[2], db) :
                last' = Did("get_conversation_list", s, None, db, "returned", result, None, None)
    /\ UNCHANGED <<users, startup, surface, conversations, conversation_id, minted, superseded, finance>>

-----------------------------------------------------------------------------
(* Handlers of the chat surface (FinanceInterface), one per agent tab; the *)
(* four copies differ in the agent only                                    *)

\* bot_reply of _handle_*_chat: response.msgs[0].content if the value step
\* returned has msgs, else its content (an AttributeError without one)
BotReply(ret) ==
    IF ret.kind = "message" THEN [ok |-> TRUE, text |-> ret.message.content, err |-> ""]
    ELSE OriginalContent(ret.response)

Entry(role, content) == [role |-> role, content |-> content]

\* what the except branch of the handler appends: f"处理消息时出错: {str(e)}"
FailedEntries(message, err) ==
    <<Entry("user", message), Entry("assistant", <<"message_error: ", err>>)>>

\* _handle_*_chat: an empty message is ignored; otherwise the user's message is
\* saved, step is called, the reply is saved, and both are shown.  An
\* exception anywhere (a failing connection in save_message or get_history, a
\* returned value without content) ends the handler in its except branch.
\* The record keeps the entries the handler appends to the transcript it was
\* handed.
HandleChatStep(s, message, t1, db1, resp, db2, t2, db3) ==
    LET cid    == conversation_id[s]
        rows1  == Inserted(conversations, users, s, "user", message, t1, cid, db1)
        ret    == StepReturn(resp)
        reply  == BotReply(ret)
        rows2  == Inserted(rows1, users, s, "assistant", reply.text, t2, cid, db3)
    IN  /\ Len(conversations) + 2 <= MaxRows
        /\ \/ /\ message = <<>>
              /\ conversations' = conversations
              /\ last' = Did("_handle_chat", s, cid, None, "returned", <<>>, None, None)
           \/ /\ message # <<>>
              /\ db1 = "connect_error"
              /\ conversations' = conversations
              /\ last' = Did("_handle_chat", s, cid, None, "returned",
                             FailedEntries(message, "sqlite3.Error"), None, None)
           \/ /\ message # <<>>
              /\ db1 # "connect_error"
              /\ db2 = "connect_error"
              /\ conversations' = rows1
              /\ last' = Did("_handle_chat", s, cid, None, "returned",
                             FailedEntries(message, "sqlite3.Error"), None, None)
           \/ /\ message # <<>>
              /\ db1 # "connect_error"
              /\ db2 # "connect_error"
              /\ \E history \in get_history(rows1, s, cid, db2) :
                    LET prompt == [text |-> history,
                                   full_content |-> FullContent(history, message)]
                    IN  \/ /\ ~reply.ok
                           /\ conversations' = rows1
                           /\ last' = Did("_handle_chat", s, cid, None, "returned",
                                          FailedEntries(message, reply.err), prompt, resp)
                        \/ /\ reply.ok
                           /\ db3 = "connect_error"
                           /\ conversations' = rows1
                           /\ last' = Did("_handle_chat", s, cid, None, "returned",
                                          FailedEntries(message, "sqlite3.Error"), prompt, resp)
                        \/ /\ reply.ok
                           /\ db3 # "connect_error"
                           /\ conversations' = rows2
                           /\ last' = Did("_handle_chat", s, cid, None, "returned",
                                          <<Entry("user", message), Entry("assistant", reply.text)>>,
                                          prompt, resp)
        /\ UNCHANGED <<users, startup, sending, conversation_id, minted, superseded, finance>>

\* the handler in the runs that do not follow the transcript of the tab
_handle_chat(s, message, t1, db1, resp, db2, t2, db3) ==
    /\ HandleChatStep(s, message, t1, db1, resp, db2, t2, db3)
    /\ UNCHANGED chat_history

\* the handler with its outputs: the Chatbot of the tab shows the transcript
\* it was handed followed by the entries appended
_handle_chat_shown(s, message, t1, db1, resp, db2, t2, db3) ==
    /\ HandleChatStep(s, message, t1, db1, resp, db2, t2, db3)
    /\ chat_history' = [chat_history EXCEPT ![s] = chat_history[s] \o last'.result]

\* _clear_*_history ("new conversation"): new_conversation, then the refresh
\* of the picker, whose failing connection is raised after the switch
ClearHistoryStep(s, r, db) ==
    /\ conversation_id' = [conversation_id EXCEPT ![s] = _generate_conversation_id(s, 0, r)]
    /\ last' = Did("_clear_history", s, conversation_id'[s], db, Outcome(db), None, None, None)
    /\ UNCHANGED <<users, startup, sending, conversations, minted, superseded, finance>>

_clear_history(s, r, db) ==
    /\ ClearHistoryStep(s, r, db)
    /\ UNCHANGED chat_history

\* the handler with its outputs: the Chatbot of the tab is set to [] when the
\* handler returns, and keeps its value when the handler raises
_clear_history_shown(s, r, db) ==
    /\ ClearHistoryStep(s, r, db)
    /\ chat_history' =
          IF last'.outcome = "returned"
          THEN [chat_history EXCEPT ![s] = <<>>]
          ELSE chat_history

\* the identifier _load_selected_*_conversation finds for the selected label:
\* that of the first entry of the list with this label, None without one
SelectedId(list, selected_conv) ==
    IF \E k \in 1 .. Len(list) : list[k][1] = selected_conv
    THEN list[CHOOSE k \in 1 .. Len(list) :
                /\ list[k][1] = selected_conv
                /\ \A j \in 1 .. k - 1 : list[j][1] # selected_conv][2]
    ELSE None

\* _load_*_history: every turn of the conversation, ORDER BY timestamp ASC, as
\* entries of the transcript; any failure (the connection included) gives []
_load_history(rows, s, cid, db) ==
    IF db # "ok"
    THEN {<<>>}
    ELSE {[k \in 1 .. Len(q) |->
              Entry(IF rows[q[k]].message_type = "user" THEN "user" ELSE "assistant",
                    rows[q[k]].content)] :
            q \in OrderByAsc(MatchingRows(rows, s[1], s[2], cid),
                             [i \in MatchingRows(rows, s[1], s[2], cid) |-> rows[i].timestamp])}

\* the record of a call of _load_selected_*_conversation: the label it was
\* handed, the list it read, the identifier it found, how the storage layer
\* behaved in its three accesses ("not_reached" for one not made), the value of
\* load_conversation and the transcript it returned
DidSelect(s, selected_conv, list, conv_id, db, outcome, result, transcript) ==
    [op |-> "_load_selected_conversation", s |-> s, cid |-> conv_id, db |-> db,
     outcome |-> outcome, result |-> result, history |-> None, resp |-> None,
     selected_conv |-> selected_conv, list |-> list, transcript |-> transcript]

\* _load_selected_*_conversation: nothing is selected, or the list is read
\* (db1), the identifier is looked up by its label, load_conversation is
\* called (db2) and, when it returns True, the history is loaded (db3)
LoadSelectedStep(s, selected_conv) ==
    /\ \/ /\ selected_conv = None
          /\ conversation_id' = conversation_id
          /\ last' = DidSelect(s, selected_conv, None, None, <<"not_reached", "not_reached", "not_reached">>,
                               "returned", FALSE, <<>>)
       \/ /\ selected_conv # None
          /\ conversation_id' = conversation_id
          /\ last' = DidSelect(s, selected_conv, None, None, <<"connect_error", "not_reached", "not_reached">>,
                               "raised", None, None)
       \/ /\ selected_conv # None
          /\ \E db1 \in DbOutcomes \ {"connect_error"} :
             \E list \in get_conversation_list(conversations, s[1], s[2], db1) :
                LET conv_id == SelectedId(list, selected_conv)
                IN  \/ /\ conv_id = None
                       /\ conversation_id' = conversation_id
                       /\ last' = DidSelect(s, selected_conv, list, None, <<db1, "not_reached", "not_reached">>,
                                            "returned", FALSE, <<>>)
                    \/ /\ conv_id # None
                       /\ conversation_id' = conversation_id
                       /\ last' = DidSelect(s, selected_conv, list, conv_id,
                                            <<db1, "connect_error", "not_reached">>, "raised", None, None)
                    \/ /\ conv_id # None
                       /\ \E db2 \in DbOutcomes \ {"connect_error"} :
                             IF LoadResult(conversations, s, conv_id, db2)
                             THEN /\ conversation_id' = [conversation_id EXCEPT ![s] = conv_id]
                                  /\ \E db3 \in DbOutcomes :
                                     \E transcript \in _load_history(conversations, s, conv_id, db3) :
                                        last' = DidSelect(s, selected_conv, list, conv_id,
                                                          <<db1, db2, db3>>, "returned", TRUE,
                                                          transcript)
                             ELSE /\ conversation_id' = conversation_id
                                  /\ last' = DidSelect(s, selected_conv, list, conv_id,
                                                       <<db1, db2, "not_reached">>, "returned", FALSE, <<>>)
    /\ UNCHANGED <<users, startup, sending, conversations, minted, superseded, finance>>

_load_selected_conversation(s, selected_conv) ==
    /\ LoadSelectedStep(s, selected_conv)
    /\ UNCHANGED chat_history

\* the handler with its output: the Chatbot of the tab is set to the
\* transcript returned, and keeps its value when the handler raises
_load_selected_conversation_shown(s, selected_conv) ==
    /\ LoadSelectedStep(s, selected_conv)
    /\ chat_history' =
          IF last'.outcome = "returned"
          THEN [chat_history EXCEPT ![s] = last'.transcript]
          ELSE chat_history

\* _load_*_initial_data (page load): the history of the current conversation
\* (db1; any failure gives []), then the refresh of the picker (db2), whose
\* failing connection is raised and leaves the Chatbot as it was
_load_initial_data(s, db1, db2) ==
    /\ \E transcript \in _load_history(conversations, s, conversation_id[s], db1) :
          /\ chat_history' =
                IF db2 = "connect_error" THEN chat_history
                ELSE [chat_history EXCEPT ![s] = transcript]
          /\ last' = [op |-> "_load_initial_data", s |-> s, cid |-> conversation_id[s],
                      db |-> <<db1, db2>>, outcome |-> Outcome(db2), transcript |-> transcript]
    /\ UNCHANGED <<users, startup, sending, sessions, finance>>

-----------------------------------------------------------------------------
(* Calendar dates.  A date "YYYY-MM-DD" is the tuple <<year, month, day>>;   *)
(* texts of this fixed-width form compare as the tuples do.                *)

IsLeap(y) == (y % 4 = 0 /\ y % 100 # 0) \/ y % 400 = 0

DaysInMonth(y, m) ==
    IF m = 2 THEN (IF IsLeap(y) THEN 29 ELSE 28)
    ELSE IF m \in {4, 6, 9, 11} THEN 30
    ELSE 31

\* what strptime(text, "%Y-%m-%d") accepts
IsValidDate(d) == d[2] \in 1 .. 12 /\ d[3] \in 1 .. DaysInMonth(d[1], d[2])

\* comparison of two dates as texts
DateLeq(d, e) ==
    \/ d[1] < e[1]
    \/ d[1] = e[1] /\ d[2] < e[2]
    \/ d[1] = e[1] /\ d[2] = e[2] /\ d[3] <= e[3]

NextDay(d) ==
    IF d[3] < DaysInMonth(d[1], d[2]) THEN <<d[1], d[2], d[3] + 1>>
    ELSE IF d[2] < 12 THEN <<d[1], d[2] + 1, 1>>
    ELSE <<d[1] + 1, 1, 1>>

PrevDay(d) ==
    IF d[3] > 1 THEN <<d[1], d[2], d[3] - 1>>
    ELSE IF d[2] > 1 THEN <<d[1], d[2] - 1, DaysInMonth(d[1], d[2] - 1)>>
    ELSE <<d[1] - 1, 12, 31>>

\* d + datetime.timedelta(days = n), n >= 0
RECURSIVE AddDays(_, _)
AddDays(d, n) == IF n = 0 THEN d ELSE AddDays(NextDay(d), n - 1)

\* d.replace(day = k)
ReplaceDay(d, k) == <<d[1], d[2], k>>

\* a month end computed three days past the 28th, which stays within a month
\* of 31 days (what C19 must tell apart)
MonthEnd_three_days_on(today) == PrevDay(ReplaceDay(AddDays(ReplaceDay(today, 28), 3), 1))

\* set_budget, period type month: next_month = today.replace(day=28) + 4 days;
\* period_end = next_month.replace(day=1) - 1 day
MonthEnd(today) == PrevDay(ReplaceDay(AddDays(ReplaceDay(today, 28), 4), 1))

\* set_budget, period type quarter: today.replace(month=today.month + 2, day=1)
\* raises ValueError past December, and the period then ends on 31 December;
\* otherwise (that + 32 days).replace(day=1) - 1 day
QuarterEnd(today) ==
    IF today[2] + 2 > 12 THEN <<today[1], 12, 31>>
    ELSE PrevDay(ReplaceDay(AddDays(<<today[1], today[2] + 2, 1>>, 32), 1))

\* period types: "月", "季", "年"
PeriodTypes == {"month", "quarter", "year"}

\* the bounds set_budget computes when period_start or period_end is None
DefaultPeriod(period_type, today) ==
    IF period_type = "month" THEN <<ReplaceDay(today, 1), MonthEnd(today)>>
    ELSE IF period_type = "quarter" THEN <<ReplaceDay(today, 1), QuarterEnd(today)>>
    ELSE <<<<today[1], 1, 1>>, <<today[1], 12, 31>>>>

\* _check_budget_warning: the calendar month of a valid transaction date,
\* start_date = f"{transaction_date[:7]}-01" and end_date = the day before the
\* first of the month reached 32 days after its first day
MonthOf(d) == <<ReplaceDay(d, 1), PrevDay(ReplaceDay(AddDays(ReplaceDay(d, 1), 32), 1))>>

-----------------------------------------------------------------------------
(* Specification of the sessions on one store *)

\* After FinanceInterface.__init__: ensure_user_exists(1) has run (its INSERT
\* may have failed and been swallowed), and every agent has minted its first
\* identifier.
Init ==
    /\ \E db \in {"ok", "query_error"} : users = ensure_user_exists({}, 1, db)
    /\ conversations = <<>>
    /\ \E r \in [Sessions -> SessionRands] :
          conversation_id = [s \in Sessions |-> _generate_conversation_id(s, 0, r[s])]
    /\ minted = <<>>
    /\ superseded = [s \in Sessions |-> {}]
    /\ transactions = <<>>
    /\ budgets = {}
    /\ saving_tips = default_tips
    /\ schema = "current"
    /\ chat_history = [s \in Sessions |-> <<>>]
    /\ sending = [s \in Sessions |-> Idle]
    /\ last = Did("init", None, None, None, "returned", None, None, None)

Next ==
    \/ \E s \in Sessions : new_conversation(s)
    \/ \E s \in Sessions, cid \in ConversationIds, db \in DbOutcomes : load_conversation(s, cid, db)
    \/ /\ Len(conversations) < MaxRows
       /\ \E s \in Sessions, m \in MessageTypes, t \in SessionTimes, db \in DbOutcomes :
             save_message(s, m, <<"hello">>, t, db)
    \/ \E s \in Sessions : step(s)
    \/ \E s \in Sessions, db \in DbOutcomes : _refresh_conversations(s, db)
    \/ /\ Len(conversations) + 2 <= MaxRows
       /\ \E s \in Sessions, message \in UserMessages \cup {<<>>},
             t1 \in SessionTimes, t2 \in SessionTimes,
             resp \in ChatResponses, db1 \in DbOutcomes, db2 \in DbOutcomes, db3 \in DbOutcomes :
             _handle_chat(s, message, t1, db1, resp, db2, t2, db3)
    \/ \E s \in Sessions, r \in SessionRands, db \in DbOutcomes : _clear_history(s, r, db)
    \/ \E s \in Sessions, selected_conv \in {DisplayName(t) : t \in SessionTimes} \cup {None} :
          _load_selected_conversation(s, selected_conv)

Spec == Init /\ [][Next]_vars

-----------------------------------------------------------------------------
(* Specification of the ordered reads: turns persisted at any clock        *)
(* reading, in several conversations, and the history and the list read    *)

NextOrder ==
    \/ \E s \in Sessions : new_conversation(s)
    \/ /\ Len(conversations) < MaxRows
       /\ \E s \in Sessions, m \in MessageTypes, t \in Times, db \in DbOutcomes :
             save_message(s, m, <<"hello">>, t, db)
    \/ \E s \in Sessions : step(s)
    \/ \E s \in Sessions, db \in DbOutcomes : _refresh_conversations(s, db)

SpecOrder == Init /\ [][NextOrder]_vars

-----------------------------------------------------------------------------
(* Specification of step alone: every response of the model *)

\* the first call of step in a run, on every response
NextStep ==
    \E s \in Sessions, user_msg \in UserMessages, resp \in Responses, db \in DbOutcomes :
        /\ last.op = "init"
        /\ StepWith(s, user_msg, resp, db)

\* step reads the store and the current identifier only to build the prompt:
\* it is called here on the empty store of a user that exists
InitStep ==
    /\ users = ensure_user_exists({}, 1, "ok")
    /\ conversations = <<>>
    /\ conversation_id = [s \in Sessions |-> _generate_conversation_id(s, 0, 0)]
    /\ minted = <<>>
    /\ superseded = [s \in Sessions |-> {}]
    /\ transactions = <<>>
    /\ budgets = {}
    /\ saving_tips = default_tips
    /\ schema = "current"
    /\ chat_history = [s \in Sessions |-> <<>>]
    /\ sending = [s \in Sessions |-> Idle]
    /\ last = Did("init", None, None, None, "returned", None, None, None)

SpecStep == InitStep /\ [][NextStep]_vars

-----------------------------------------------------------------------------
(* Specification of the minting of identifiers: every clock second and     *)
(* every random value, with the log of what was minted                     *)

Mint(s, sec, r) == [s |-> s, sec |-> sec, r |-> r, id |-> _generate_conversation_id(s, sec, r)]

\* FinanceAgent.__init__ of each agent, in the order of FinanceInterface.__init__
InitIds ==
    /\ users = {1}
    /\ conversations = <<>>
    /\ \E sec \in Seconds, r1 \in Rands, r2 \in Rands :
          /\ minted = <<Mint(<<1, "xiaozhang">>, sec, r1), Mint(<<1, "mingcha">>, sec, r2)>>
          /\ conversation_id = [s \in Sessions |->
                                  IF s = <<1, "xiaozhang">> THEN minted[1].id ELSE minted[2].id]
    /\ superseded = [s \in Sessions |-> {}]
    /\ transactions = <<>>
    /\ budgets = {}
    /\ saving_tips = default_tips
    /\ schema = "current"
    /\ chat_history = [s \in Sessions |-> <<>>]
    /\ sending = [s \in Sessions |-> Idle]
    /\ last = Did("init", None, None, None, "returned", None, None, None)

new_conversation_logged(s) ==
    \E sec \in Seconds, r \in Rands :
        /\ Len(minted) < MaxMints
        /\ NewConversationStep(s, sec, r)
        /\ minted' = Append(minted, Mint(s, sec, r))
        /\ UNCHANGED superseded

NextIds == \E s \in Sessions : new_conversation_logged(s)

SpecIds == InitIds /\ [][NextIds]_vars

-----------------------------------------------------------------------------
(* Specification of the switches between conversations: new_conversation,  *)
(* save_message and load_conversation, with a note of every conversation a *)
(* new_conversation has left                                               *)

\* the turns of a conversation, in the order in which they were persisted
TurnsOf(rows, s, cid) ==
    LET Matches(row) == /\ row.user_id = s[1]
                        /\ row.agent_type = s[2]
                        /\ row.conversation_id = cid
    IN  SelectSeq(rows, Matches)

\* the note of a conversation left by new_conversation: its identifier, its
\* turns and the history get_history gave at the switch, whether an identifier
\* minted since equals its own, and whether load_conversation has made it
\* current again
Note(s, cid, new_id) ==
    [cid |-> cid, turns |-> TurnsOf(conversations, s, cid),
     history |-> get_history(conversations, s, cid, "ok"),
     reminted |-> new_id = cid, restored |-> FALSE]

new_conversation_noted(s) ==
    \E r \in SessionRands :
        /\ NewConversationStep(s, 0, r)
        /\ superseded' =
              [superseded EXCEPT ![s] =
                  {IF e.cid = conversation_id'[s] THEN [e EXCEPT !.reminted = TRUE] ELSE e :
                      e \in {d \in superseded[s] : d.cid # conversation_id[s]}}
                  \cup {Note(s, conversation_id[s], conversation_id'[s])}]
        /\ UNCHANGED minted

load_conversation_noted(s, cid, db) ==
    /\ LoadConversationStep(s, cid, db)
    /\ superseded' =
          IF db # "connect_error" /\ LoadResult(conversations, s, cid, db)
          THEN [superseded EXCEPT ![s] =
                   {IF e.cid = cid THEN [e EXCEPT !.restored = TRUE] ELSE e : e \in superseded[s]}]
          ELSE superseded

\* FinanceInterface.__init__, no conversation left yet
InitSwitch ==
    /\ \E db \in {"ok", "query_error"} : users = ensure_user_exists({}, 1, db)
    /\ conversations = <<>>
    /\ \E r \in [Sessions -> SessionRands] :
          conversation_id = [s \in Sessions |-> _generate_conversation_id(s, 0, r[s])]
    /\ minted = <<>>
    /\ superseded = [s \in Sessions |-> {}]
    /\ transactions = <<>>
    /\ budgets = {}
    /\ saving_tips = default_tips
    /\ schema = "current"
    /\ chat_history = [s \in Sessions |-> <<>>]
    /\ sending = [s \in Sessions |-> Idle]
    /\ last = Did("init", None, None, None, "returned", None, None, None)

\* the session that switches: the four agents share no conversation, so one
\* of them is followed
SwitchSessions == {<<1, "xiaozhang">>}

NextSwitch ==
    \/ \E s \in SwitchSessions : new_conversation_noted(s)
    \/ \E s \in SwitchSessions, cid \in ConversationIds, db \in DbOutcomes :
          load_conversation_noted(s, cid, db)
    \/ /\ Len(conversations) < MaxRows
       /\ \E s \in SwitchSessions, m \in MessageTypes, t \in SessionTimes, db \in DbOutcomes :
             save_message(s, m, <<"hello">>, t, db)

SpecSwitch == InitSwitch /\ [][NextSwitch]_vars

-----------------------------------------------------------------------------
(* Specification of the chat surface of one tab: the handlers with the     *)
(* transcript the tab shows                                                *)

\* entries the transcript of a tab may hold
MaxTranscript == 4

NextSurface ==
    \/ \E s \in SwitchSessions, db1 \in DbOutcomes, db2 \in DbOutcomes :
          _load_initial_data(s, db1, db2)
    \/ /\ Len(conversations) + 2 <= MaxRows
       /\ \E s \in SwitchSessions, message \in UserMessages \cup {<<>>},
             resp \in ChatResponses, db1 \in DbOutcomes, db2 \in DbOutcomes, db3 \in DbOutcomes :
             /\ Len(chat_history[s]) + 2 <= MaxTranscript
             /\ _handle_chat_shown(s, message, 0, db1, resp, db2, 0, db3)
    \/ \E s \in SwitchSessions, r \in SessionRands, db \in DbOutcomes :
          _clear_history_shown(s, r, db)
    \/ \E s \in SwitchSessions, selected_conv \in {DisplayName(t) : t \in SessionTimes} \cup {None} :
          _load_selected_conversation_shown(s, selected_conv)

SpecSurface == InitSwitch /\ [][NextSurface]_vars

-----------------------------------------------------------------------------
(* Specification of the interleavings on one tab: the send handler runs    *)
(* call by call, and between its calls the handlers of the new-            *)
(* conversation button and of the picker run on the same agent.  The       *)
(* handlers are plain functions bound to different events and share the    *)
(* agent object without a lock.                                            *)

\* rows the conversations table may hold in the runs of SpecInterleave
MaxInterleaveRows == 3

\* the send handler of a tab between two of its calls: the call it makes
\* next, the message, the identifier current at save_message("user", ...)
\* and whether that call persisted the turn, and the reply once step returned
Sending(pc, message, user_cid, user_saved, reply) ==
    [pc |-> pc, message |-> message, user_cid |-> user_cid, user_saved |-> user_saved,
     reply |-> reply]

\* the record of a call made by the send handler: the call, whether the
\* handler has returned, the identifiers under which the two turns were
\* stored and whether they were persisted, and the entries appended to the
\* transcript
DidSend(s, stage, finished, user_cid, reply_cid, user_saved, reply_saved, result) ==
    [op |-> "_handle_chat", s |-> s, stage |-> stage, finished |-> finished,
     user_cid |-> user_cid, reply_cid |-> reply_cid, user_saved |-> user_saved,
     reply_saved |-> reply_saved, outcome |-> "returned", result |-> result]

\* _handle_*_chat up to save_message("user", message): an empty message
\* returns at once, a failing connection ends the handler in its except branch
SendSaveUser(s, message, t1, db1) ==
    LET cid  == conversation_id[s]
        rows == Inserted(conversations, users, s, "user", message, t1, cid, db1)
    IN  /\ sending[s].pc = "idle"
        /\ \/ /\ message = <<>>
              /\ UNCHANGED <<conversations, sending>>
              /\ last' = DidSend(s, "save_user", TRUE, None, None, FALSE, FALSE, <<>>)
           \/ /\ message # <<>>
              /\ db1 = "connect_error"
              /\ UNCHANGED <<conversations, sending>>
              /\ last' = DidSend(s, "save_user", TRUE, cid, None, FALSE, FALSE,
                                 FailedEntries(message, "sqlite3.Error"))
           \/ /\ message # <<>>
              /\ db1 # "connect_error"
              /\ conversations' = rows
              /\ sending' = [sending EXCEPT ![s] =
                                Sending("step", message, cid, rows # conversations, None)]
              /\ last' = DidSend(s, "save_user", FALSE, cid, None, rows # conversations, FALSE, <<>>)
        /\ UNCHANGED <<users, startup, chat_history, conversation_id, minted, superseded, finance>>

\* the call of step: get_history under the identifier current now, the model
\* call, and bot_reply
SendStep(s, resp, db2) ==
    LET h     == sending[s]
        reply == BotReply(StepReturn(resp))
    IN  /\ h.pc = "step"
        /\ IF db2 = "connect_error" \/ ~reply.ok
           THEN /\ sending' = [sending EXCEPT ![s] = Idle]
                /\ last' = DidSend(s, "step", TRUE, h.user_cid, None, h.user_saved, FALSE,
                                   FailedEntries(h.message,
                                                 IF db2 = "connect_error" THEN "sqlite3.Error"
                                                 ELSE reply.err))
           ELSE /\ sending' = [sending EXCEPT ![s] =
                                  Sending("save_reply", h.message, h.user_cid, h.user_saved,
                                          reply.text)]
                /\ last' = DidSend(s, "step", FALSE, h.user_cid, None, h.user_saved, FALSE, <<>>)
        /\ UNCHANGED <<users, startup, chat_history, conversations, conversation_id, minted,
                       superseded, finance>>

\* save_message("assistant", bot_reply) under the identifier current now, and
\* the return of the handler
SendSaveReply(s, t2, db3) ==
    LET h    == sending[s]
        cid  == conversation_id[s]
        rows == Inserted(conversations, users, s, "assistant", h.reply, t2, cid, db3)
    IN  /\ h.pc = "save_reply"
        /\ sending' = [sending EXCEPT ![s] = Idle]
        /\ IF db3 = "connect_error"
           THEN /\ conversations' = conversations
                /\ last' = DidSend(s, "save_reply", TRUE, h.user_cid, cid, h.user_saved, FALSE,
                                   FailedEntries(h.message, "sqlite3.Error"))
           ELSE /\ conversations' = rows
                /\ last' = DidSend(s, "save_reply", TRUE, h.user_cid, cid, h.user_saved,
                                   rows # conversations,
                                   <<Entry("user", h.message), Entry("assistant", h.reply)>>)
        /\ UNCHANGED <<users, startup, chat_history, conversation_id, minted, superseded, finance>>

\* an earlier turn, the three calls of the send handler, and between them the
\* new-conversation handler and the select handler of the same tab
NextInterleave ==
    \/ /\ Len(conversations) < 1
       /\ \E s \in SwitchSessions : save_message(s, "user", <<"earlier">>, 0, "ok")
    \/ /\ Len(conversations) + 2 <= MaxInterleaveRows
       /\ \E s \in SwitchSessions, message \in UserMessages \cup {<<>>}, db1 \in DbOutcomes :
             SendSaveUser(s, message, 0, db1)
    \/ \E s \in SwitchSessions, resp \in ChatResponses, db2 \in DbOutcomes : SendStep(s, resp, db2)
    \/ \E s \in SwitchSessions, db3 \in DbOutcomes : SendSaveReply(s, 0, db3)
    \/ \E s \in SwitchSessions, r \in SessionRands, db \in DbOutcomes : _clear_history(s, r, db)
    \/ \E s \in SwitchSessions, selected_conv \in {DisplayName(t) : t \in SessionTimes} \cup {None} :
          _load_selected_conversation(s, selected_conv)

SpecInterleave == InitSwitch /\ [][NextInterleave]_vars

-----------------------------------------------------------------------------
(* Finance operations (FinanceTools): add_transaction with its budget      *)
(* check, and set_budget.  Amounts are whole numbers of yuan.              *)

\* rows the transactions table may hold
MaxTransactions == 2
\* rows the budgets table may hold
MaxBudgets == 2

\* the user the interface builds its FinanceTools for
FinanceUser == 1

\* a row of transactions (description left out: no operation of the model reads it)
Transaction(u, amount, category, transaction_date, created_at) ==
    [user_id |-> u, amount |-> amount, category |-> category,
     transaction_date |-> transaction_date, created_at |-> created_at]

\* a row of budgets
Budget(id, u, category, amount, period_type, period_start, period_end, created_at, updated_at) ==
    [id |-> id, user_id |-> u, category |-> category, amount |-> amount,
     period_type |-> period_type, period_start |-> period_start, period_end |-> period_end,
     created_at |-> created_at, updated_at |-> updated_at]

\* SELECT ... FROM budgets WHERE user_id = ? AND category = ? AND
\* period_start = ? AND period_end = ?
BudgetsOfKey(rows, u, category, period_start, period_end) ==
    {b \in rows : /\ b.user_id = u
                  /\ b.category = category
                  /\ b.period_start = period_start
                  /\ b.period_end = period_end}

\* the id AUTOINCREMENT gives to a row inserted with id NULL
NextBudgetId(rows) == IF rows = {} THEN 1 ELSE Max({b.id : b \in rows}) + 1

\* a plain INSERT into a table without the UNIQUE key (what C16 must tell
\* apart)
Upserted_as_insert(rows, usrs, u, category, amount, period_type, period_start, period_end, now, db) ==
    IF db = "ok" /\ u \in usrs
    THEN rows \cup {Budget(NextBudgetId(rows), u, category, amount, period_type,
                           period_start, period_end, now, now)}
    ELSE rows

\* the INSERT OR REPLACE of set_budget: id and created_at are those of the row
\* with the same (user_id, category, period_start, period_end) when there is
\* one, which the new row then replaces; the statement fails on a storage
\* error or when the foreign key users(id) is violated
Upserted(rows, usrs, u, category, amount, period_type, period_start, period_end, now, db) ==
    LET old == BudgetsOfKey(rows, u, category, period_start, period_end)
    IN  IF db = "ok" /\ u \in usrs
        THEN IF old = {}
             THEN rows \cup {Budget(NextBudgetId(rows), u, category, amount, period_type,
                                    period_start, period_end, now, now)}
             ELSE (rows \ old)
                  \cup {Budget(b.id, u, category, amount, period_type,
                               period_start, period_end, b.created_at, now) : b \in old}
        ELSE rows

\* the record of a call of set_budget: its arguments (the bounds as given and
\* whether both were given), the bounds it stored, the clock readings, how the
\* storage layer behaved and the tag of the envelope it returned
DidSetBudget(u, category, amount, period_type, given, period, today, now, db, status) ==
    [op |-> "set_budget", user_id |-> u, category |-> category, amount |-> amount,
     period_type |-> period_type, given |-> given,
     explicit |-> given[1] # None /\ given[2] # None,
     period_start |-> period[1], period_end |-> period[2],
     today |-> today, now |-> now, db |-> db, outcome |-> Outcome(db),
     result |-> [status |-> status]]

\* FinanceTools.set_budget: both bounds are computed from today when either
\* is None; get_connection before the try block; the INSERT OR REPLACE; a
\* failing statement gives the error envelope
set_budget(u, category, amount, period_type, period_start, period_end, today, now, db) ==
    LET explicit == period_start # None /\ period_end # None
        period   == IF explicit THEN <<period_start, period_end>>
                    ELSE DefaultPeriod(period_type, today)
    IN  /\ budgets' = Upserted(budgets, users, u, category, amount, period_type,
                               period[1], period[2], now, db)
        /\ last' = DidSetBudget(u, category, amount, period_type, <<period_start, period_end>>,
                                period, today, now, db,
                                IF db = "ok" /\ u \in users THEN "success" ELSE "error")
        /\ UNCHANGED <<users, startup, surface, transactions, sessions>>

\* the warnings of _check_budget_warning: None, the overspend text
\* "警告：{category}已超支！本月预算{budget_amount}元，已花费{total_spent}元，超支{over}元",
\* the reminder text "提醒：{category}已使用预算的{percentage:.0f}%，剩余{remaining}元",
\* and "日期格式错误，无法检查预算"; a text is modelled by its kind and the
\* values substituted into it
Warning(kind, category, budget_amount, total_spent, over, percentage, remaining) ==
    [kind |-> kind, category |-> category, budget_amount |-> budget_amount,
     total_spent |-> total_spent, over |-> over, percentage |-> percentage,
     remaining |-> remaining]

NoWarning == Warning("none", "", 0, 0, 0, 0, 0)

DateFormatWarning == Warning("date_format_error", "", 0, 0, 0, 0, 0)

\* SELECT SUM(ABS(amount)) FROM transactions WHERE user_id = ? AND category = ?
\* AND amount < 0 AND transaction_date BETWEEN ? AND ?  (or 0)
RECURSIVE TotalSpent(_, _, _, _, _)
TotalSpent(rows, u, category, start_date, end_date) ==
    IF rows = <<>> THEN 0
    ELSE LET row == Head(rows)
             counted == /\ row.user_id = u
                        /\ row.category = category
                        /\ row.amount < 0
                        /\ DateLeq(start_date, row.transaction_date)
                        /\ DateLeq(row.transaction_date, end_date)
         IN  (IF counted THEN 0 - row.amount ELSE 0)
             + TotalSpent(Tail(rows), u, category, start_date, end_date)

\* f"{percentage:.0f}" of percentage = total_spent / budget_amount * 100: the
\* nearest whole number, the even one of two equally near
RoundedPercentage(total_spent, budget_amount) ==
    LET n == total_spent * 100
        q == n \div budget_amount
        r == n % budget_amount
    IN  IF 2 * r < budget_amount THEN q
        ELSE IF 2 * r > budget_amount THEN q + 1
        ELSE IF q % 2 = 0 THEN q ELSE q + 1

\* the thresholds of _check_budget_warning:
\* percentage = (total_spent / budget_amount) * 100 if budget_amount > 0 else 0;
\* above 100 the overspend warning, above 80 the reminder
BudgetWarning(category, budget_amount, total_spent) ==
    IF budget_amount > 0 /\ total_spent * 100 > 100 * budget_amount
    THEN Warning("overspend", category, budget_amount, total_spent,
                 total_spent - budget_amount, 0, 0)
    ELSE IF budget_amount > 0 /\ total_spent * 100 > 80 * budget_amount
    THEN Warning("reminder", category, budget_amount, total_spent, 0,
                 RoundedPercentage(total_spent, budget_amount), budget_amount - total_spent)
    ELSE NoWarning

\* SELECT amount FROM budgets WHERE user_id = ? AND category = ? AND
\* period_type = '月' AND period_start <= ? AND period_end >= ?
MonthlyBudgets(rows, u, category, transaction_date) ==
    {b \in rows : /\ b.user_id = u
                  /\ b.category = category
                  /\ b.period_type = "month"
                  /\ DateLeq(b.period_start, transaction_date)
                  /\ DateLeq(transaction_date, b.period_end)}

\* FinanceTools._check_budget_warning on the tables as add_transaction left
\* them: the warnings it may return (fetchone takes any of the budgets that
\* match), or the exception of a failing connection, which get_connection
\* raises before the try block
_check_budget_warning(bgts, txs, u, category, amount, transaction_date, db) ==
    IF amount > 0 THEN {[raised |-> FALSE, warning |-> NoWarning]}
    ELSE IF ~IsValidDate(transaction_date)
    THEN {[raised |-> FALSE, warning |-> DateFormatWarning]}
    ELSE IF db = "connect_error" THEN {[raised |-> TRUE, warning |-> NoWarning]}
    ELSE IF db = "query_error" THEN {[raised |-> FALSE, warning |-> NoWarning]}
    ELSE IF MonthlyBudgets(bgts, u, category, transaction_date) = {}
    THEN {[raised |-> FALSE, warning |-> NoWarning]}
    ELSE {[raised |-> FALSE,
           warning |-> BudgetWarning(category, b.amount,
                                     TotalSpent(txs, u, category,
                                                MonthOf(transaction_date)[1],
                                                MonthOf(transaction_date)[2]))] :
            b \in MonthlyBudgets(bgts, u, category, transaction_date)}

\* the envelope add_transaction returns: the tag, the record id and the warning
TransactionResult(status, record_id, warning) ==
    [status |-> status, record_id |-> record_id, warning |-> warning]

\* the record of a call of add_transaction: its arguments (the date after the
\* default), how the storage layer behaved for the INSERT and for the budget
\* check, and the envelope it returned
DidAddTransaction(u, amount, category, transaction_date, db, outcome, result) ==
    [op |-> "add_transaction", user_id |-> u, amount |-> amount, category |-> category,
     transaction_date |-> transaction_date, db |-> db, outcome |-> outcome, result |-> result]

\* an INSERT that does not check the foreign key users(id) (what C20 must
\* tell apart)
InsertedTransaction_unchecked(rows, usrs, u, amount, category, transaction_date, now, db) ==
    IF db = "ok"
    THEN Append(rows, Transaction(u, amount, category, transaction_date, now))
    ELSE rows

\* the INSERT of add_transaction and its commit: the row is added unless the
\* statement fails or the foreign key users(id) is violated
InsertedTransaction(rows, usrs, u, amount, category, transaction_date, now, db) ==
    IF db = "ok" /\ u \in usrs
    THEN Append(rows, Transaction(u, amount, category, transaction_date, now))
    ELSE rows

\* FinanceTools.add_transaction: the date defaults to today; get_connection
\* before the try block; INSERT and commit; then the budget check (db2), whose
\* exception is caught by the except branch after the commit
add_transaction(u, amount, category, transaction_date, today, now, db1, db2) ==
    LET date == IF transaction_date = None THEN today ELSE transaction_date
        rows == InsertedTransaction(transactions, users, u, amount, category, date, now, db1)
    IN  /\ Len(transactions) < MaxTransactions
        /\ transactions' = rows
        /\ \/ /\ db1 = "connect_error"
              /\ last' = DidAddTransaction(u, amount, category, date, <<db1, "not_reached">>,
                                           "raised", None)
           \/ /\ db1 # "connect_error"
              /\ rows = transactions
              /\ last' = DidAddTransaction(u, amount, category, date, <<db1, "not_reached">>,
                                           "returned", TransactionResult("error", 0, NoWarning))
           \/ /\ db1 # "connect_error"
              /\ rows # transactions
              /\ \E check \in _check_budget_warning(budgets, rows, u, category, amount, date, db2) :
                    last' = DidAddTransaction(
                               u, amount, category, date, <<db1, db2>>, "returned",
                               IF check.raised
                               THEN TransactionResult("error", 0, NoWarning)
                               ELSE TransactionResult("success", Len(rows), check.warning))
        /\ UNCHANGED <<users, startup, surface, budgets, sessions>>

-----------------------------------------------------------------------------
(* Specifications of the finance operations *)

\* categories, budget amounts and transaction amounts handed to the
\* operations: a budget of 500 and one of 0; expenses that reach 80%, 94%,
\* 100% and 101% of 500 within two transactions, and an income
Categories == {"food"}
BudgetAmounts == {0, 500}
TxAmounts == {0 - 470, 0 - 400, 0 - 100, 0 - 35, 40}

\* the current date of the runs, an explicit period that overlaps two
\* calendar months, and an explicit transaction date in the second of them
FinanceDays == {<<2024, 1, 31>>}
ExplicitPeriods == {<<<<2024, 1, 15>>, <<2024, 2, 15>>>>}
TxDates == {<<2024, 2, 1>>}

\* FinanceInterface.__init__: ensure_user_exists(1) has run (its INSERT may
\* have failed and been swallowed); no transaction, budget or turn yet
InitFinance ==
    /\ \E db \in {"ok", "query_error"} : users = ensure_user_exists({}, FinanceUser, db)
    /\ conversations = <<>>
    /\ conversation_id = [s \in Sessions |-> _generate_conversation_id(s, 0, 0)]
    /\ minted = <<>>
    /\ superseded = [s \in Sessions |-> {}]
    /\ transactions = <<>>
    /\ budgets = {}
    /\ saving_tips = default_tips
    /\ schema = "current"
    /\ chat_history = [s \in Sessions |-> <<>>]
    /\ sending = [s \in Sessions |-> Idle]
    /\ last = Did("init", None, None, None, "returned", None, None, None)

\* set_budget as a monthly or a yearly budget, on every clock reading and
\* storage outcome
NextBudget ==
    \E category \in Categories, amount \in BudgetAmounts, period_type \in {"month", "year"},
       period \in ExplicitPeriods \cup {<<None, None>>},
       today \in FinanceDays, now \in Times, db \in DbOutcomes :
        /\ set_budget(FinanceUser, category, amount, period_type, period[1], period[2],
                      today, now, db)
        /\ Cardinality(budgets') <= MaxBudgets

SpecBudget == InitFinance /\ [][NextBudget]_vars

\* monthly budgets and transactions
NextFinance ==
    \/ \E category \in Categories, amount \in BudgetAmounts,
          period \in ExplicitPeriods \cup {<<None, None>>},
          today \in FinanceDays, db \in DbOutcomes :
           /\ set_budget(FinanceUser, category, amount, "month", period[1], period[2],
                         today, 0, db)
           /\ Cardinality(budgets') <= MaxBudgets
    \/ \E amount \in TxAmounts, category \in Categories,
          transaction_date \in TxDates \cup {None}, today \in FinanceDays,
          db1 \in DbOutcomes, db2 \in DbOutcomes :
           add_transaction(FinanceUser, amount, category, transaction_date, today, 0, db1, db2)

SpecFinance == InitFinance /\ [][NextFinance]_vars

\* the years whose days the default period is computed on: a common year, a
\* leap year, and a century year that is no leap year
PeriodYears == {2023, 2024, 2100}

AllDays == {<<y, m, d>> : y \in PeriodYears, m \in 1 .. 12, d \in 1 .. 31} \
           {e \in {<<y, m, d>> : y \in PeriodYears, m \in 1 .. 12, d \in 1 .. 31} : ~IsValidDate(e)}

\* the first set_budget of a run without explicit bounds, on every current date
NextPeriod ==
    \E period_type \in PeriodTypes, today \in AllDays :
        /\ last.op = "init"
        /\ set_budget(FinanceUser, "food", 500, period_type, None, None, today, 0, "ok")

InitPeriod ==
    /\ users = ensure_user_exists({}, FinanceUser, "ok")
    /\ conversations = <<>>
    /\ conversation_id = [s \in Sessions |-> _generate_conversation_id(s, 0, 0)]
    /\ minted = <<>>
    /\ superseded = [s \in Sessions |-> {}]
    /\ transactions = <<>>
    /\ budgets = {}
    /\ saving_tips = default_tips
    /\ schema = "current"
    /\ chat_history = [s \in Sessions |-> <<>>]
    /\ sending = [s \in Sessions |-> Idle]
    /\ last = Did("init", None, None, None, "returned", None, None, None)

SpecPeriod == InitPeriod /\ [][NextPeriod]_vars

\* the three inserts that reference users(id): a turn, a transaction, a budget
NextRefs ==
    \/ /\ Len(conversations) < MaxRows
       /\ \E s \in SwitchSessions, m \in MessageTypes, db \in DbOutcomes :
             save_message(s, m, <<"hello">>, 0, db)
    \/ \E amount \in {0 - 35, 40}, transaction_date \in TxDates \cup {None},
          db1 \in DbOutcomes, db2 \in DbOutcomes :
           add_transaction(FinanceUser, amount, "food", transaction_date, <<2024, 1, 31>>, 0,
                           db1, db2)
    \/ \E amount \in BudgetAmounts, period \in ExplicitPeriods \cup {<<None, None>>},
          db \in DbOutcomes :
           /\ set_budget(FinanceUser, "food", amount, "month", period[1], period[2],
                         <<2024, 1, 31>>, 0, db)
           /\ Cardinality(budgets') <= MaxBudgets

SpecRefs == InitFinance /\ [][NextRefs]_vars

\* set_budget with both bounds, with one of them and with none, for every
\* period type
NextBounds ==
    \E period_type \in PeriodTypes, period_start \in {None, <<2024, 1, 15>>},
       period_end \in {None, <<2024, 2, 15>>}, amount \in {500}, db \in DbOutcomes :
        /\ set_budget(FinanceUser, "food", amount, period_type, period_start, period_end,
                      <<2024, 1, 31>>, 0, db)
        /\ Cardinality(budgets') <= MaxBudgets

SpecBounds == InitFinance /\ [][NextBounds]_vars

\* the transaction dates handed to add_transaction in the runs of SpecRecord:
\* none, a valid date, and two texts of the form YYYY-MM-DD that are no dates
\* ("2024-13-01", "2024-02-30")
RecordDates == {None, <<2024, 2, 1>>, <<2024, 13, 1>>, <<2024, 2, 30>>}

\* an expense and an income recorded on every date and storage outcome, next
\* to a monthly budget of the current month
NextRecord ==
    \/ \E amount \in {0 - 35, 40}, transaction_date \in RecordDates,
          db1 \in DbOutcomes, db2 \in DbOutcomes :
           add_transaction(FinanceUser, amount, "food", transaction_date, <<2024, 2, 1>>, 0,
                           db1, db2)
    \/ \E amount \in {30, 500}, db \in {"ok"} :
           /\ set_budget(FinanceUser, "food", amount, "month", None, None, <<2024, 2, 1>>, 0, db)
           /\ Cardinality(budgets') <= MaxBudgets

SpecRecord == InitFinance /\ [][NextRecord]_vars

-----------------------------------------------------------------------------
(* Start of a process: DatabaseManager._initialize_db and                  *)
(* FinanceInterface.__init__ on the store they find                        *)

\* processes started on one store in a run of SpecRestart
MaxStarts == 3

\* the statement of _initialize_db that raises: sqlite3.connect, one of the
\* statements up to PRAGMA table_info, the DROP TABLE, the CREATE TABLE of
\* conversations, one of the statements on saving_tips up to the commit, or
\* none
InitFailures == {"connect", "tables", "drop", "conversations", "tips", "none"}

\* a migration that drops the conversations table whatever its columns (what
\* C26 must tell apart)
Migrated_always(rows, sch) == <<>>

\* the rows of conversations after the migration of _initialize_db: the table
\* is dropped when 'conversation_id' is not among its columns
Migrated(rows, sch) == IF sch = "current" THEN rows ELSE <<>>

\* INSERT OR IGNORE INTO saving_tips (category, tip, difficulty,
\* estimated_saving): the table has no key but its AUTOINCREMENT id, which the
\* statement leaves to the table, so no row is ever ignored
Seeded(tips) == tips \o default_tips

\* the record of a start: the table it found, the statement of _initialize_db
\* that failed, how the storage layer behaved in ensure_user_exists
DidStart(found, failed_at, db, outcome) ==
    [op |-> "start", found |-> found, failed_at |-> failed_at, db |-> db, outcome |-> outcome]

\* DatabaseManager._initialize_db: the statements run one by one outside any
\* try block; the DROP and the CREATE take effect at once, the rows of
\* saving_tips with the commit
_initialize_db(failed_at) ==
    /\ conversations' =
          IF failed_at \in {"conversations", "tips", "none"}
          THEN Migrated(conversations, schema)
          ELSE conversations
    /\ schema' =
          IF failed_at \in {"tips", "none"} THEN "current"
          ELSE IF failed_at = "conversations" /\ schema # "current" THEN "absent"
          ELSE schema
    /\ saving_tips' = IF failed_at = "none" THEN Seeded(saving_tips) ELSE saving_tips

\* FinanceInterface.__init__ as the main program runs it: DatabaseManager(),
\* ensure_user_exists(1), then the agents, each minting its identifier; the
\* page of the new process shows no turn yet.  An exception of _initialize_db
\* or of the connection of ensure_user_exists aborts the launch.
start(failed_at, db, r) ==
    /\ Len(saving_tips) < MaxStarts * Len(default_tips)
    /\ failed_at = "drop" => schema # "current"
    /\ _initialize_db(failed_at)
    /\ IF failed_at = "none" /\ db # "connect_error"
       THEN /\ users' = ensure_user_exists(users, 1, db)
            /\ conversation_id' = [s \in Sessions |-> _generate_conversation_id(s, 0, r[s])]
            /\ last' = DidStart(schema, failed_at, db, "returned")
       ELSE /\ UNCHANGED <<users, conversation_id>>
            /\ last' = DidStart(schema, failed_at,
                                IF failed_at = "none" THEN db ELSE "not_reached", "raised")
    /\ chat_history' = [s \in Sessions |-> <<>>]
    /\ UNCHANGED <<minted, superseded, finance, sending>>

\* a process is running: the last start was not aborted
Running == last.op # "no_process" /\ ~(last.op = "start" /\ last.outcome = "raised")

\* a turn of a store written before the conversation_id column existed
LegacyRow(s, msg_type, content, t) == Row(s, msg_type, content, t, None)

\* The store the first process finds: no database file yet, or the file of an
\* earlier version of the program, whose conversations table has no
\* conversation_id column and may hold a turn, next to a user and a
\* transaction.
InitRestart ==
    /\ \/ /\ schema = "absent"
          /\ users = {}
          /\ conversations = <<>>
          /\ transactions = <<>>
          /\ saving_tips = <<>>
       \/ /\ schema = "legacy"
          /\ users = {1}
          /\ conversations \in {<<>>, <<LegacyRow(<<1, "xiaozhang">>, "user", <<"hello">>, 0)>>}
          /\ transactions \in {<<>>, <<Transaction(1, 0 - 35, "food", <<2024, 1, 31>>, 0)>>}
          /\ saving_tips \in {<<>>, default_tips}
    /\ budgets = {}
    /\ conversation_id = [s \in Sessions |-> _generate_conversation_id(s, 0, 0)]
    /\ minted = <<>>
    /\ superseded = [s \in Sessions |-> {}]
    /\ chat_history = [s \in Sessions |-> <<>>]
    /\ sending = [s \in Sessions |-> Idle]
    /\ last = [op |-> "no_process", outcome |-> "returned"]

\* starts of the process, and between them a turn, a transaction and a budget
NextRestart ==
    \/ \E failed_at \in InitFailures, db \in DbOutcomes, r \in [Sessions -> {0}] :
          start(failed_at, db, r)
    \/ /\ Running
       /\ Len(conversations) < MaxRows
       /\ \E s \in SwitchSessions, db \in {"ok"} : save_message(s, "user", <<"hello">>, 0, db)
    \/ /\ Running
       /\ add_transaction(FinanceUser, 0 - 35, "food", None, <<2024, 1, 31>>, 0, "ok", "ok")
    \/ /\ Running
       /\ set_budget(FinanceUser, "food", 500, "month", None, None, <<2024, 1, 31>>, 0, "ok")

SpecRestart == InitRestart /\ [][NextRestart]_vars

-----------------------------------------------------------------------------
(* Properties of the sessions (Spec) *)

\* C1: load_conversation called with an identifier that has no persisted turn
\* of the session's (user, agent type) pair, or while the storage layer fails
\* during the lookup, returns False and leaves every current identifier as it
\* was.  (Refuted: with a failing connection the call raises.)
C1_FailedLoadReturnsFalse ==
    [][(/\ last'.op = "load_conversation"
        /\ \/ ~HasTurn(conversations, last'.s, last'.cid)
           \/ last'.db # "ok")
       => (/\ last'.outcome = "returned"
           /\ last'.result = FALSE
           /\ conversation_id' = conversation_id)]_vars

\* C5: all persisted turns that share a conversation identifier have the same
\* user id and the same agent type, and the identifier begins with that user
\* id and that agent type tag.
C5_TurnsOfAnIdShareOwner ==
    \A i, j \in 1 .. Len(conversations) :
        /\ conversations[i].conversation_id = conversations[j].conversation_id
              => /\ conversations[i].user_id = conversations[j].user_id
                 /\ conversations[i].agent_type = conversations[j].agent_type
        /\ conversations[i].conversation_id[1] = conversations[i].user_id
        /\ conversations[i].conversation_id[2] = conversations[i].agent_type

\* two turns are stored under one identifier and the session of the other
\* agent has just asked to load it, and was refused
C5_Witness ==
    /\ Len(conversations) = 2
    /\ conversations[1].conversation_id = conversations[2].conversation_id
    /\ last.op = "load_conversation"
    /\ last.db = "ok"
    /\ last.cid = conversations[1].conversation_id
    /\ last.s[2] # conversations[1].agent_type
    /\ last.outcome = "returned"
    /\ last.result = FALSE

\* C6: the turn log is append-only under every operation of the sessions and
\* of the chat surface: a persisted row never changes and is never removed.
C6_LogIsAppendOnly ==
    [][/\ Len(conversations') >= Len(conversations)
       /\ \A i \in 1 .. Len(conversations) : conversations'[i] = conversations[i]]_vars

\* the session has just started a new conversation while turns are stored
\* under the identifier it held before
C6_Witness ==
    /\ last.op \in {"new_conversation", "_clear_history"}
    /\ Len(conversations) = 2
    /\ \A i \in 1 .. 2 :
          /\ conversations[i].agent_type = last.s[2]
          /\ conversations[i].conversation_id # conversation_id[last.s]

\* C8: step leaves the current identifiers and the turn log as they were; an
\* identifier changes only in new_conversation and in a load_conversation that
\* returned True (called directly or by a handler of the chat surface); and
\* every session always holds one identifier of its own (user, agent type).
C8_StepChangesNothing ==
    [][/\ last'.op = "step"
            => /\ conversation_id' = conversation_id
               /\ conversations' = conversations
       /\ conversation_id' # conversation_id
            => \/ last'.op \in {"new_conversation", "_clear_history"}
               \/ /\ last'.op \in {"load_conversation", "_load_selected_conversation"}
                  /\ last'.outcome = "returned"
                  /\ last'.result = TRUE
       /\ DOMAIN conversation_id' = Sessions
       /\ \A s \in Sessions :
            /\ Len(conversation_id'[s]) = 4
            /\ conversation_id'[s][1] = s[1]
            /\ conversation_id'[s][2] = s[2]]_vars

\* step has just returned its fallback message after a failure of the model,
\* in a session whose current conversation has persisted turns
C8_Witness ==
    /\ last.op = "step"
    /\ last.outcome = "returned"
    /\ last.result.kind = "message"
    /\ last.result.message.role_name = "system"
    /\ HasTurn(conversations, last.s, conversation_id[last.s])

\* C12 as stated: each call of save_message appends exactly one row that
\* carries the given message type and content, the session's user and agent
\* type and the identifier current at the call, and leaves every existing row
\* unchanged.  (Refuted: a call whose connection or INSERT fails appends no
\* row.)
C12_EachSaveAppendsOneRow ==
    [][last'.op = "save_message"
          => conversations' =
                Append(conversations,
                       [user_id |-> last'.s[1], agent_type |-> last'.s[2],
                        message_type |-> last'.msg_type, content |-> last'.content,
                        timestamp |-> last'.timestamp,
                        conversation_id |-> conversation_id[last'.s]])]_vars

\* C12, amended: a call of save_message whose connection opens and whose
\* INSERT succeeds (the statement runs and the session's user is a row of
\* users) appends exactly one row that carries the given message type and
\* content, the session's user and agent type, the clock reading and the
\* identifier current at the call; every other call appends no row; in both
\* cases every existing row is unchanged.
C12_SuccessfulSaveAppendsOneRow ==
    [][last'.op = "save_message"
          => IF last'.db = "ok" /\ last'.s[1] \in users
             THEN conversations' =
                     Append(conversations,
                            [user_id |-> last'.s[1], agent_type |-> last'.s[2],
                             message_type |-> last'.msg_type, content |-> last'.content,
                             timestamp |-> last'.timestamp,
                             conversation_id |-> conversation_id[last'.s]])
             ELSE conversations' = conversations]_vars

\* the assistant's reply has just been persisted behind the user's message,
\* under the identifier the session holds
C12_Witness ==
    /\ last.op = "save_message"
    /\ last.db = "ok"
    /\ last.msg_type = "assistant"
    /\ Len(conversations) = 2
    /\ conversations[1].message_type = "user"
    /\ conversations[2].message_type = "assistant"
    /\ conversations[2].agent_type = last.s[2]
    /\ conversations[2].conversation_id = conversation_id[last.s]

\* C13: for every non-empty message handled by the chat surface exactly two
\* turns are appended to the session's current conversation, the user's
\* message and then the assistant's reply, and the same two entries are
\* appended in that order to the visible transcript.  (Refuted: when a
\* connection or an INSERT fails, or the returned value has no content, the
\* transcript gets two entries while fewer than two turns are persisted.)
\* The third value the handler returns, the empty text for the input box, is
\* a constant of the source and no state of the model.
C13_HandledMessageAppendsTwoTurns ==
    [][(last'.op = "_handle_chat" /\ last'.result # <<>>)
          => /\ Len(last'.result) = 2
             /\ last'.result[1].role = "user"
             /\ last'.result[2].role = "assistant"
             /\ Len(conversations') = Len(conversations) + 2
             /\ \A i \in 1 .. Len(conversations) : conversations'[i] = conversations[i]
             /\ \A k \in 1 .. 2 :
                   LET row == conversations'[Len(conversations) + k]
                   IN  /\ row.user_id = last'.s[1]
                       /\ row.agent_type = last'.s[2]
                       /\ row.conversation_id = conversation_id[last'.s]
                       /\ row.message_type = last'.result[k].role
                       /\ row.content = last'.result[k].content]_vars

\* the transcripts that show every persisted turn of a conversation once,
\* oldest first by its timestamp
FullHistories(s, cid) ==
    {[k \in 1 .. Len(q) |->
         [role |-> conversations[q[k]].message_type, content |-> conversations[q[k]].content]] :
       q \in {p \in Enumerations(MatchingRows(conversations, s[1], s[2], cid)) :
                \A i, j \in 1 .. Len(p) :
                    i < j => conversations[p[i]].timestamp <= conversations[p[j]].timestamp}}

\* C14: selecting an entry of the conversation picker makes the conversation
\* this entry denotes the session's current conversation and replaces the
\* transcript with the full persisted history of that conversation, for every
\* entry of the list.  (Refuted: the handler is given the label of the entry
\* and loads the first conversation of the list with this label; two
\* conversations last updated within one minute have the same label.)
C14_SelectingLoadsThatEntry ==
    (/\ last.op = "_load_selected_conversation"
     /\ last.db = <<"ok", "ok", "ok">>)
        => \A k \in 1 .. Len(last.list) :
              last.list[k][1] = last.selected_conv
                 => /\ conversation_id[last.s] = last.list[k][2]
                    /\ last.transcript \in FullHistories(last.s, last.list[k][2])

\* C24 as stated: load_conversation(id) returns True and adopts id as the
\* current identifier if and only if at least one persisted turn exists with
\* the session's user id, the session's agent type and that identifier.
\* (Refuted: when the lookup fails the call does not return True although the
\* turn exists.)
C24_LoadAdoptsIffTurnExists ==
    [][last'.op = "load_conversation"
          => ((/\ last'.outcome = "returned"
               /\ last'.result = TRUE
               /\ conversation_id'[last'.s] = last'.cid)
              <=> HasTurn(conversations, last'.s, last'.cid))]_vars

\* C24, amended: load_conversation(id) returns True and adopts id as the
\* current identifier if and only if the lookup reads the store without a
\* storage failure and at least one persisted turn exists with the session's
\* user id, the session's agent type and that identifier; in every other case
\* every current identifier stays as it was.  In particular an identifier
\* without a persisted turn, a freshly minted one and the session's own
\* current one included, is rejected.
C24_LoadAdoptsIffTurnFound ==
    [][last'.op = "load_conversation"
          => LET found == /\ last'.db = "ok"
                          /\ HasTurn(conversations, last'.s, last'.cid)
             IN  /\ (last'.outcome = "returned" /\ last'.result = TRUE) <=> found
                 /\ conversation_id' =
                       IF found
                       THEN [conversation_id EXCEPT ![last'.s] = last'.cid]
                       ELSE conversation_id
                 /\ (last'.db = "ok" /\ ~found)
                       => (last'.outcome = "returned" /\ last'.result = FALSE)]_vars

\* the session has a persisted turn in an earlier conversation and has just
\* been refused its own current identifier, freshly minted and without a turn
C24_Witness ==
    /\ last.op = "load_conversation"
    /\ last.db = "ok"
    /\ last.outcome = "returned"
    /\ last.result = FALSE
    /\ last.cid = conversation_id[last.s]
    /\ ~HasTurn(conversations, last.s, last.cid)
    /\ \E i \in 1 .. Len(conversations) :
          /\ conversations[i].agent_type = last.s[2]
          /\ conversations[i].conversation_id # last.cid

\* the send handler has called step, which has read the history
StepReached == last.op = "_handle_chat" /\ DOMAIN last.history # {}

\* C29: on the send path of the chat surface the user's message is persisted
\* before step reads the history, so the history preamble of the prompt is
\* never empty and its last line is the message being submitted: the message
\* occurs twice in the prompt, as the last line of the history and after the
\* current-message marker, and the branch of step that sends the message
\* alone is never taken.  (Refuted: save_message swallows a failing INSERT and
\* get_history a failing query, and step then sends the message alone.)
C29_PromptHoldsMessageTwice ==
    StepReached
        => LET text    == last.history.text
               message == last.result[1].content
           IN  /\ text # <<>>
               /\ text[Len(text)] = <<"user", ": ", message>>
               /\ last.history.full_content =
                     <<"history:\n", text, "\nuser_now_says: ", message>>

-----------------------------------------------------------------------------
(* Properties of the ordered reads (SpecOrder) *)

\* the rowids of the turns of a conversation, oldest first in the order in
\* which they were persisted
PersistedTurns(rows, s, cid) ==
    CHOOSE q \in OrderByAsc(MatchingRows(rows, s[1], s[2], cid),
                            [i \in MatchingRows(rows, s[1], s[2], cid) |-> i]) : TRUE

\* the last n elements of a sequence
LastOf(q, n) == IF Len(q) <= n THEN q ELSE SubSeq(q, Len(q) - n + 1, Len(q))

\* C2: the history step puts into the prompt consists of the turns persisted
\* under the current (user, agent type, identifier), at most 20 of them, the
\* most recently persisted ones, oldest first in the order in which they were
\* persisted.  (Refuted: the turns are chosen and ordered by their wall-clock
\* timestamps.)
C2_HistoryInPersistenceOrder ==
    (last.op = "step" /\ last.db = "ok")
        => last.history.text =
              HistoryLines(conversations,
                           LastOf(PersistedTurns(conversations, last.s, last.cid), 20))

\* the newest timestamp of the turns of a conversation
NewestTurn(u, a, cid) ==
    Max({conversations[i].timestamp : i \in MatchingRows(conversations, u, a, cid)})

-----------------------------------------------------------------------------
(* Properties of step (SpecStep) *)

\* the failures of the generation: the model invocation raises, or the
\* response lacks the "tool_calls" entry, or it reports tool calls and has no
\* message or lacks the "tool_results" entry
GenerationFailure(resp) ==
    \/ resp.exc # ""
    \/ ~resp.has_tool_calls
    \/ /\ resp.tool_calls
       /\ (resp.msgs = <<>> \/ ~resp.has_tool_results)

HasToolResults(resp) ==
    /\ resp.exc = ""
    /\ resp.has_tool_calls
    /\ resp.tool_calls
    /\ resp.has_tool_results
    /\ resp.tool_results # <<>>
    /\ resp.msgs # <<>>

\* the line C9 names for an envelope, by its tag
ClaimedLine(result) ==
    IF result.status = "success" THEN <<"op_succeeded: ", result.message, "\n">>
    ELSE IF result.status = "warning" THEN <<"reminder: ", result.message, "\n">>
    ELSE <<"op_failed: ", result.message, "\n">>

RECURSIVE ClaimedLines(_)
ClaimedLines(tool_results) ==
    IF tool_results = <<>> THEN <<>>
    ELSE ClaimedLine(Head(tool_results)) \o ClaimedLines(Tail(tool_results))

\* C9: when the response carries tool results, each an envelope with a tag
\* and a message, the reply is the model's narrative followed by one line per
\* tool result in their order: the success line, the reminder line or the
\* failure line according to the tag.  (Refuted: an envelope tagged "warning"
\* gets the failure line.)
C9_OneLinePerToolResult ==
    (/\ last.op = "step"
     /\ last.outcome = "returned"
     /\ HasToolResults(last.resp)
     /\ \A k \in 1 .. Len(last.resp.tool_results) :
           /\ last.resp.tool_results[k].shape = "object"
           /\ last.resp.tool_results[k].has_message
           /\ ~last.resp.tool_results[k].has_warning)
        => /\ last.result.kind = "message"
           /\ last.result.message.content =
                 last.resp.msgs[1].content \o <<"\n\n">> \o ClaimedLines(last.resp.tool_results)

\* piece occurs in text
Contains(text, piece) ==
    \/ piece = <<>>
    \/ \E i \in 1 .. Len(text) - Len(piece) + 1 : SubSeq(text, i, i + Len(piece) - 1) = piece

\* C10: for every tool result that cannot be parsed into an envelope, the
\* reply contains the model's narrative, that result's raw output and the
\* lines of the other tool results of the response.  (Refuted: a result that
\* is JSON but no object, or no text, ends the loop in the outer except.)
C10_UnparsedResultKeptVerbatim ==
    (last.op = "step" /\ last.outcome = "returned" /\ HasToolResults(last.resp))
        => \A k \in 1 .. Len(last.resp.tool_results) :
              last.resp.tool_results[k].shape # "object"
                 => /\ last.result.kind = "message"
                    /\ Contains(last.result.message.content, last.resp.msgs[1].content)
                    /\ Contains(last.result.message.content, <<last.resp.tool_results[k].raw>>)
                    /\ \A j \in 1 .. Len(last.resp.tool_results) :
                          (j # k /\ last.resp.tool_results[j].shape = "object")
                             => Contains(last.result.message.content,
                                         ResultLines(last.resp.tool_results[j]).text)

\* C11: when the response of the model reports no tool invocation, step
\* returns the response itself, and the reply the chat surface reads from it
\* is exactly the content of the model's own message.
C11_NoToolReplyIsModelContent ==
    (/\ last.op = "step"
     /\ last.outcome = "returned"
     /\ last.resp.exc = ""
     /\ last.resp.has_tool_calls
     /\ ~last.resp.tool_calls)
        => /\ last.result.kind = "response"
           /\ last.result.response = last.resp
           /\ last.resp.msgs # <<>>
                 => /\ BotReply(last.result).ok
                    /\ BotReply(last.result).text = last.resp.msgs[1].content

\* step has just returned on a response that reports no tool invocation and
\* carries a message of the model
C11_Witness ==
    /\ last.op = "step"
    /\ last.outcome = "returned"
    /\ last.resp.exc = ""
    /\ last.resp.has_tool_calls
    /\ ~last.resp.tool_calls
    /\ last.resp.msgs # <<>>
    /\ last.resp.msgs[1].content = <<"narrative">>
    /\ BotReply(last.result).text = <<"narrative">>

-----------------------------------------------------------------------------
(* Properties of the switches between conversations (SpecSwitch) *)

\* every turn a conversation had when new_conversation left it is persisted
StillPersisted(s, e) ==
    /\ Len(TurnsOf(conversations', s, e.cid)) >= Len(e.turns)
    /\ SubSeq(TurnsOf(conversations', s, e.cid), 1, Len(e.turns)) = e.turns

-----------------------------------------------------------------------------
(* Properties of the transcript of a tab (SpecSurface) *)

\* C28: after every action of the chat surface on a tab (page load, send,
\* new conversation, select conversation) the transcript the tab shows equals
\* the persisted history, oldest first, of the current conversation of the
\* tab's session, also when a selection fails to load and when persisting a
\* turn fails.  (Refuted: a selection that loads nothing empties the
\* transcript and leaves the current conversation as it was; a send whose
\* turns are not persisted shows them all the same.)
C28_TranscriptIsPersistedHistory ==
    last.op \in {"_load_initial_data", "_handle_chat", "_clear_history",
                 "_load_selected_conversation"}
        => chat_history[last.s] \in FullHistories(last.s, conversation_id[last.s])

-----------------------------------------------------------------------------
(* Properties of the interleavings on one tab (SpecInterleave) *)

\* C30: for every interleaving of an agent's send handler with the
\* new-conversation handler or the select handler of that agent, the user's
\* turn and the assistant's reply of one handled message are persisted under
\* the same conversation identifier.  (Refuted: save_message reads the
\* current identifier at each of its two calls, and a switch between them
\* puts the reply into another conversation.)
C30_TurnNeverSplit ==
    (/\ last.op = "_handle_chat"
     /\ last.stage = "save_reply"
     /\ last.user_saved
     /\ last.reply_saved)
        => last.user_cid = last.reply_cid

-----------------------------------------------------------------------------
(* Properties of the budgets (SpecBudget) *)

SameBudgetKey(b, c) ==
    /\ b.user_id = c.user_id
    /\ b.category = c.category
    /\ b.period_start = c.period_start
    /\ b.period_end = c.period_end

\* C16: after any sequence of set_budget calls there is at most one budget
\* row per (user, category, period_start, period_end); a call that succeeds
\* and whose key matches an existing row replaces that row's amount and
\* period_type, keeps its created_at (and its id) and adds no second row; a
\* call that succeeds on a new key adds one row; a call that fails changes
\* nothing.
C16_OneBudgetPerKey ==
    [][/\ \A b, c \in budgets' : SameBudgetKey(b, c) => b = c
       /\ last'.op = "set_budget"
             => LET old == {b \in budgets : /\ b.user_id = last'.user_id
                                            /\ b.category = last'.category
                                            /\ b.period_start = last'.period_start
                                            /\ b.period_end = last'.period_end}
                    new == {b \in budgets' : /\ b.user_id = last'.user_id
                                             /\ b.category = last'.category
                                             /\ b.period_start = last'.period_start
                                             /\ b.period_end = last'.period_end}
                IN  IF last'.outcome = "returned" /\ last'.result.status = "success"
                    THEN /\ Cardinality(new) = 1
                         /\ budgets' \ new = budgets \ old
                         /\ \A n \in new :
                               /\ n.amount = last'.amount
                               /\ n.period_type = last'.period_type
                               /\ n.updated_at = last'.now
                               /\ \A b \in old : n.created_at = b.created_at /\ n.id = b.id
                               /\ old = {} => n.created_at = last'.now
                    ELSE budgets' = budgets]_vars

\* set_budget has just replaced the amount and the period type of a budget
\* created at another clock reading, while a budget with another key exists
C16_Witness ==
    /\ last.op = "set_budget"
    /\ last.outcome = "returned"
    /\ last.result.status = "success"
    /\ Cardinality(budgets) = 2
    /\ \E b \in budgets :
          /\ b.period_start = last.period_start
          /\ b.period_end = last.period_end
          /\ b.created_at # last.now
          /\ b.updated_at = last.now
          /\ b.amount = last.amount
          /\ b.period_type = "year"
          /\ b.id = 1

-----------------------------------------------------------------------------
(* Properties of the budget warnings (SpecFinance) *)

\* the sum of the expenses among the rows I of transactions
RECURSIVE SpendOf(_)
SpendOf(I) ==
    IF I = {} THEN 0
    ELSE LET i == CHOOSE j \in I : TRUE
         IN  (0 - transactions[i].amount) + SpendOf(I \ {i})

\* the cumulative spend of a user in a category in the calendar month of a date
MonthSpend(u, category, date) ==
    SpendOf({i \in 1 .. Len(transactions) :
                /\ transactions[i].user_id = u
                /\ transactions[i].category = category
                /\ transactions[i].amount < 0
                /\ transactions[i].transaction_date[1] = date[1]
                /\ transactions[i].transaction_date[2] = date[2]})

\* the monthly budgets of the category of the transaction recorded last whose
\* period contains its date
ActiveBudgets ==
    {b \in budgets : /\ b.user_id = last.user_id
                     /\ b.category = last.category
                     /\ b.period_type = "month"
                     /\ DateLeq(b.period_start, last.transaction_date)
                     /\ DateLeq(last.transaction_date, b.period_end)}

\* add_transaction has just recorded a transaction and checked the budget,
\* the storage layer working
Recorded ==
    /\ last.op = "add_transaction"
    /\ last.outcome = "returned"
    /\ last.db = <<"ok", "ok">>
    /\ last.result.status = "success"

\* C17: for every transaction recorded with a negative amount in a category
\* that has a monthly budget whose period contains the transaction date, and
\* for every budget amount set_budget accepts: when the cumulative spend of
\* the category in the transaction's month, the new transaction included,
\* exceeds the budget amount, the result carries the overspend warning, whose
\* overage is the total spent minus the budget amount; with budget 500 and
\* prior spend 0, recording -35 carries no warning.  (Refuted: set_budget
\* accepts the amount 0, and a budget of 0 is never reported as overspent.)
C17_OverspendIsWarned ==
    (Recorded /\ last.amount < 0)
        => \A b \in ActiveBudgets :
              LET total == MonthSpend(last.user_id, last.category, last.transaction_date)
              IN  /\ total > b.amount
                        => /\ last.result.warning.kind = "overspend"
                           /\ last.result.warning.total_spent = total
                           /\ last.result.warning.over = total - b.amount
                  /\ (b.amount = 500 /\ last.amount = 0 - 35 /\ total = 35)
                        => last.result.warning.kind = "none"

\* C18: for an expense recorded against an active monthly budget the warning
\* follows the two thresholds: a month spend above 80% and not above 100% of
\* the budget gives the reminder with the percentage and the remaining
\* amount, a month spend above 100% gives the overspend warning, a month
\* spend of at most 80% gives no warning; an income never gives a warning.
\* (Refuted: against a budget of 0 every spend is above 100% of the budget
\* and no warning is given.)
C18_WarningFollowsThresholds ==
    Recorded
        => /\ last.amount > 0 => last.result.warning.kind = "none"
           /\ last.amount < 0
                 => \A b \in ActiveBudgets :
                       LET total == MonthSpend(last.user_id, last.category,
                                               last.transaction_date)
                       IN  IF total * 100 > 100 * b.amount
                           THEN last.result.warning.kind = "overspend"
                           ELSE IF total * 100 > 80 * b.amount
                           THEN /\ last.result.warning.kind = "reminder"
                                /\ last.result.warning.remaining = b.amount - total
                           ELSE last.result.warning.kind = "none"

\* the first access of a finance operation to the store met a storage error:
\* the connection did not open, the statement failed, or the foreign key
\* users(id) was violated
MetStorageError ==
    \/ /\ last.op = "set_budget"
       /\ (last.db # "ok" \/ last.user_id \notin users)
    \/ /\ last.op = "add_transaction"
       /\ (last.db[1] # "ok" \/ last.user_id \notin users)

\* C22: every finance operation that meets a storage error, a constraint
\* violation or a failure to open the connection, returns the error envelope
\* and raises no exception to its caller.  (Refuted: the connection is opened
\* before the try block, and its failure is raised to the caller.)
C22_StorageErrorGivesEnvelope ==
    MetStorageError
        => /\ last.outcome = "returned"
           /\ last.result.status = "error"

-----------------------------------------------------------------------------
(* Properties of the period bounds (SpecBounds) *)

\* C25: the period bounds of set_budget are independently optional: a call
\* that gives one bound and omits the other stores the given bound as given
\* and defaults only the omitted one.  (Refuted: when either bound is omitted
\* both are computed from the current date, and the given one is discarded.)
C25_BoundsIndependentlyOptional ==
    (/\ last.op = "set_budget"
     /\ last.outcome = "returned"
     /\ last.result.status = "success")
        => /\ last.period_start =
                 IF last.given[1] # None THEN last.given[1]
                 ELSE DefaultPeriod(last.period_type, last.today)[1]
           /\ last.period_end =
                 IF last.given[2] # None THEN last.given[2]
                 ELSE DefaultPeriod(last.period_type, last.today)[2]
           /\ \E b \in budgets : /\ b.period_start = last.period_start
                                 /\ b.period_end = last.period_end

-----------------------------------------------------------------------------
(* Properties of the recording of transactions (SpecRecord) *)

\* C23: add_transaction called with a transaction date that is no valid
\* YYYY-MM-DD date returns the error envelope, and no transaction row is
\* persisted for that call.  (Refuted: the date is stored as given and the
\* call returns the success envelope; for an expense the envelope carries the
\* date-format text as its warning.)
C23_InvalidDateIsRejected ==
    [][(last'.op = "add_transaction" /\ ~IsValidDate(last'.transaction_date))
          => /\ last'.outcome = "returned"
             /\ last'.result.status = "error"
             /\ transactions' = transactions]_vars

\* C27: whenever add_transaction returns the error envelope the transactions
\* table is as it was before the call, and whenever it returns the success
\* envelope exactly one row was added, with the given amount, category and
\* date.  (Refuted: an exception of the budget check, which runs after the
\* commit, gives the error envelope while the row is persisted.)
C27_ErrorEnvelopeMeansNoRow ==
    [][(last'.op = "add_transaction" /\ last'.outcome = "returned")
          => IF last'.result.status = "error"
             THEN transactions' = transactions
             ELSE /\ Len(transactions') = Len(transactions) + 1
                  /\ SubSeq(transactions', 1, Len(transactions)) = transactions
                  /\ transactions'[Len(transactions')].user_id = last'.user_id
                  /\ transactions'[Len(transactions')].amount = last'.amount
                  /\ transactions'[Len(transactions')].category = last'.category
                  /\ transactions'[Len(transactions')].transaction_date
                        = last'.transaction_date]_vars

-----------------------------------------------------------------------------
(* Properties of the default period (SpecPeriod) *)

\* C19: set_budget called with period type month and no explicit bounds
\* stores period_start equal to the first calendar day and period_end equal
\* to the last calendar day of the current month, for every current date.
C19_DefaultMonthIsCalendarMonth ==
    (/\ last.op = "set_budget"
     /\ last.period_type = "month"
     /\ ~last.explicit
     /\ last.result.status = "success")
        => /\ Cardinality(budgets) = 1
           /\ \A b \in budgets :
                 /\ b.period_type = "month"
                 /\ b.period_start = <<last.today[1], last.today[2], 1>>
                 /\ b.period_end = <<last.today[1], last.today[2],
                                     DaysInMonth(last.today[1], last.today[2])>>

\* a monthly budget has just been stored on 29 February of a leap year
C19_Witness ==
    /\ last.op = "set_budget"
    /\ last.period_type = "month"
    /\ ~last.explicit
    /\ last.result.status = "success"
    /\ last.today = <<2024, 2, 29>>
    /\ \E b \in budgets : b.period_start = <<2024, 2, 1>> /\ b.period_end = <<2024, 2, 29>>

-----------------------------------------------------------------------------
(* Properties of the references to users (SpecRefs) *)

\* C20: in every reachable state each transaction row, budget row and
\* conversation-turn row has a user id that exists in the users table; an
\* insert for a user id that does not exist adds no row.
C20_RowsReferenceUsers ==
    [][/\ \A i \in 1 .. Len(conversations') : conversations'[i].user_id \in users'
       /\ \A i \in 1 .. Len(transactions') : transactions'[i].user_id \in users'
       /\ \A b \in budgets' : b.user_id \in users'
       /\ (last'.op = "save_message" /\ last'.s[1] \notin users)
             => conversations' = conversations
       /\ (last'.op = "add_transaction" /\ last'.user_id \notin users)
             => /\ transactions' = transactions
                /\ last'.outcome = "returned" => last'.result.status = "error"
       /\ (last'.op = "set_budget" /\ last'.user_id \notin users)
             => /\ budgets' = budgets
                /\ last'.outcome = "returned" => last'.result.status = "error"]_vars

\* the users table has no row for the user, the storage layer works, and
\* add_transaction has just returned the error envelope without adding a row
C20_Witness ==
    /\ users = {}
    /\ last.op = "add_transaction"
    /\ last.db[1] = "ok"
    /\ last.outcome = "returned"
    /\ last.result.status = "error"
    /\ transactions = <<>>
    /\ budgets = {}
    /\ conversations = <<>>

-----------------------------------------------------------------------------
(* Properties of the start of a process (SpecRestart) *)

\* C21: after any number of starts of the process on one store the
\* saving_tips table holds exactly the five default tips, each exactly once,
\* and no operation but the initialisation writes to the table.  (Refuted:
\* every initialisation inserts the five tips again.)
C21_TipsSeededOnce ==
    [][/\ Running'
            => /\ Len(saving_tips') = 5
               /\ \A k \in 1 .. Len(default_tips) :
                     Cardinality({i \in 1 .. Len(saving_tips') :
                                     saving_tips'[i] = default_tips[k]}) = 1
       /\ last'.op # "start" => saving_tips' = saving_tips]_vars

-----------------------------------------------------------------------------
(* Properties of the identifiers (SpecIds) *)

====
